---- MODULE Spec2Model ----
(***************************************************************************)
(* A model of the snakee data-pipeline engine: the SQL query builder       *)
(* (streams/wrappers/sql_stream.py), the sort / group / join operations of *)
(* the regular streams and the struct validation of the connectors.        *)
(*                                                                         *)
(* Each area has a specification of its own (SpecQuery, SpecSort, ...);    *)
(* the variables of the other areas stay at their idle values there.       *)
(***************************************************************************)
EXTENDS Naturals, Integers, Sequences, FiniteSets, TLC

\* ------------------------------------------------------------------ bounds

\* Query objects the builder may allocate (the root query included).
MaxQueries == 3

\* Items of a stream that is sorted, and the largest chunk size (step).
MaxSortLen == 3
MaxStep == 2

\* Items of a stream that is grouped.
MaxGroupLen == 3

\* Items of the left and of the right stream of a join.
MaxJoinLen == 2

\* Fields of a struct.
MaxFields == 2

\* Named expressions of one step.
MaxExprs == 3

\* Items an expression is evaluated on.
MaxEvalLen == 2

\* Items that are validated.
MaxValidLen == 3

\* Items of a stream that has a count.
MaxCountLen == 2

\* Lines of a file.
MaxLines == 3

\* Times a file is modified.
MaxTime == 3

\* File handles one file object opens.
MaxHandles == 3

\* Elements of a row.
MaxRowLen == 2

\* Names that are generated, seconds that pass, and the greatest of the
\* values of randint(0, 1000) that are drawn.
MaxNames == 3
MaxClock == 2
MaxRandom == 1

\* --------------------------------------------------------------- variables

VARIABLES
    queries,    \* the SqlStream objects: <<[source, name, data, built]>>
    lists,      \* the expression lists the data dicts of the queries refer to
    lastOp,     \* the last builder call: receiver, result, what it found
    rendered    \* the last get_query_lines() call and what it returned

varsQuery == <<queries, lists, lastOp, rendered>>

VARIABLES
    sortCase,   \* the stream that is sorted and the arguments of the call
    sortDone    \* the last sort call and the items of the stream it returned

varsSort == <<sortCase, sortDone>>

VARIABLES
    groupCase,  \* the stream that is grouped
    groupDone   \* the last grouping call and the groups it yielded

varsGroup == <<groupCase, groupDone>>

VARIABLES
    joinCase,   \* the left and the right stream of a join
    joinDone    \* the joins made of them: for each kind of join, its items

varsJoin == <<joinCase, joinDone>>

VARIABLES
    structCase, \* a data source: the struct of its storage, its declared struct
    struct,     \* the struct the source object holds
    structDone  \* the last validation call and its outcome

varsStruct == <<structCase, struct, structDone>>

VARIABLES
    exprCase,  \* the named expressions of a step and the arguments of the call
    exprDone  \* the last dependency sort and its outcome

varsExpr == <<exprCase, exprDone>>

VARIABLES
    evalCase,  \* the items, the description that is evaluated on them, the error of its function
    evalDone  \* the last evaluation and its outcome

varsEval == <<evalCase, evalDone>>

VARIABLES
    validCase,  \* the items given to a stream and the item type of the stream
    validDone  \* the last validation of the items and its outcome

varsValid == <<validCase, validDone>>

VARIABLES
    countCase,  \* a stream
    countDone  \* the last operation on the stream and the stream it produced

varsCount == <<countCase, countDone>>

VARIABLES
    fileCase,  \* the lines to read or to write and the count of the lines asked for
    fileRun  \* the generator over the lines

varsFile == <<fileCase, fileRun>>

VARIABLES
    clock,  \* the second the clock of the process shows
    names  \* the names generated so far, each with the pipeline that asked for it

varsName == <<clock, names>>

VARIABLES
    typeCase,  \* the type given to get_canonic_type, with ignore_missing and default
    typeDone  \* the last call of get_canonic_type and its outcome

varsType == <<typeCase, typeDone>>

VARIABLES
    file,  \* a file on disk and the object of it
    freshDone  \* the last call on the file object and its outcome

varsFresh == <<file, freshDone>>

VARIABLES
    handleCase,  \* whether the file is gzipped, and its encoding
    handles,  \* the file handles the file object opened so far, each open or closed
    fileholder,  \* the handle the file object holds, 0 for none
    handleDone  \* the last call on the file object and its outcome

varsHandle == <<handleCase, handles, fileholder, handleDone>>

VARIABLES
    itemCase,  \* a row and a key
    itemDone  \* the last call of the getter on the row and its outcome

varsItem == <<itemCase, itemDone>>

\* Every part of the program is checked by a specification of its own; the
\* objects of the other parts are not built then.
Idle == [op |-> "none"]
QueryIdle == queries = <<>> /\ lists = <<>> /\ lastOp = Idle /\ rendered = Idle
SortIdle == sortCase = Idle /\ sortDone = Idle
GroupIdle == groupCase = Idle /\ groupDone = Idle
JoinIdle == joinCase = Idle /\ joinDone = Idle
StructIdle == structCase = Idle /\ struct = <<>> /\ structDone = Idle
ExprIdle == exprCase = Idle /\ exprDone = Idle
EvalIdle == evalCase = Idle /\ evalDone = Idle
ValidIdle == validCase = Idle /\ validDone = Idle
CountIdle == countCase = Idle /\ countDone = Idle
FileIdle == fileCase = Idle /\ fileRun = Idle
NameIdle == clock = 0 /\ names = <<>>
TypeIdle == typeCase = Idle /\ typeDone = Idle
FreshIdle == file = Idle /\ freshDone = Idle
HandleIdle == handleCase = Idle /\ handles = <<>> /\ fileholder = 0 /\ handleDone = Idle
ItemIdle == itemCase = Idle /\ itemDone = Idle

\* ------------------------------------------------------------ sequences

RECURSIVE ConcatAll(_)
ConcatAll(ss) ==
    IF ss = <<>> THEN <<>> ELSE Head(ss) \o ConcatAll(Tail(ss))

\* Whether block is a run of consecutive elements of lines.
Contains(lines, block) ==
    \E i \in 0..Len(lines) :
        /\ i + Len(block) <= Len(lines)
        /\ SubSeq(lines, i + 1, i + Len(block)) = block

\* The first position at which block starts in lines (0: nowhere).
FirstPos(lines, block) ==
    IF Contains(lines, block)
    THEN CHOOSE i \in 1..(Len(lines) + 1) :
            /\ i + Len(block) - 1 <= Len(lines)
            /\ SubSeq(lines, i, i + Len(block) - 1) = block
            /\ \A j \in 1..(i - 1) :
                 ~(/\ j + Len(block) - 1 <= Len(lines)
                   /\ SubSeq(lines, j, j + Len(block) - 1) = block)
    ELSE 0

\* -------------------------------------------------------- query: constants

\* chars.py
EMPTY == ""
ALL == "*"
ITEMS_DELIMITER == ", "
SQL_INDENT == "    "

\* SqlSection, by value
SelectS == "SELECT"
FromS == "FROM"
JoinS == "JOIN"
WhereS == "WHERE"
GroupByS == "GROUP BY"
OrderByS == "ORDER BY"
LimitS == "LIMIT"

SECTIONS_ORDER == <<SelectS, FromS, JoinS, WhereS, GroupByS, OrderByS, LimitS>>

\* The keys of the data dict: FROM is the stream's source, not a key.
DataSections == {SelectS, JoinS, WhereS, GroupByS, OrderByS, LimitS}

\* The source of the root query: the table t (a LeafConnector), which has no
\* index in the heap.  The tables are named by their paths; the join
\* operations take the table u as the other side.
TableSource == 0
TablePath == "t"
JoinTable == "u"

\* Table.get_columns of the two tables
TableColumns(table) ==
    IF table = TablePath THEN <<"id", "name">> ELSE <<"id", "city">>

\* get_query_name() of a table: its name
TableQueryName(table) == table

\* ------------------------------------------------------- query: expressions

\* One shape for every expression a section may hold.
\*   field     a bare field name                        select('id'), filter('name')
\*   alias     (target, source), from select(x='id')
\*   tuple_int (field, value), value an int             filter(id=1)
\*   tuple_str (field, value), value a str              filter(name='a')
\*   join      (table_or_stream, key, how), the other side a table name
\*   count     the int of take(count)
Expr(kind, name, val, n, how) ==
    [kind |-> kind, name |-> name, val |-> val, n |-> n, how |-> how]
FieldE(f) == Expr("field", f, EMPTY, 0, EMPTY)
AliasE(target, source) == Expr("alias", target, source, 0, EMPTY)
TupleIntE(f, v) == Expr("tuple_int", f, EMPTY, v, EMPTY)
TupleStrE(f, v) == Expr("tuple_str", f, v, 0, EMPTY)
JoinE(table, key, how) == Expr("join", table, key, 0, how)
CountE(c) == Expr("count", EMPTY, EMPTY, c, EMPTY)

\* str() of the ints the model uses
IntStr(n) ==
    CASE n = 1 -> "1"
      [] n = 5 -> "5"
      [] n = 10 -> "10"
      [] OTHER -> "0"

\* get_name(how).upper()
JoinTypeName(how) ==
    CASE how = "left" -> "LEFT"
      [] how = "inner" -> "INNER"
      [] OTHER -> "FULL"

\* ------------------------------------------------------------ query: heap

\* A heap: the query objects and the lists their data dicts point to.  Two
\* queries whose data dicts hold the same list index share that list, as
\* two Python dicts made by dict.copy() share their values.
Heap(qs, ls) == [qs |-> qs, ls |-> ls]

EmptyData == [s \in DataSections |-> 0]

\* SqlStream.get_expressions_for.  A missing or empty list reads as empty;
\* the fresh empty list the code stores for it is never appended to
\* (AddExpressionFor stores another fresh list first), so data[s] = 0
\* stands for both.
GetExpressionsFor(h, q, section) ==
    IF section = FromS
    THEN <<h.qs[q].source>>
    ELSE IF h.qs[q].data[section] = 0
         THEN <<>>
         ELSE h.ls[h.qs[q].data[section]]

\* SqlStream.has_any_section
HasAnySection(h, q) ==
    \E i \in 1..Len(SECTIONS_ORDER) :
        /\ SECTIONS_ORDER[i] /= FromS
        /\ GetExpressionsFor(h, q, SECTIONS_ORDER[i]) /= <<>>

\* SqlStream.new: a query of the same class whose source is self, with an
\* empty data dict and a generated name of its own (built, the calls that
\* led to a query, is the model's record and no field of the code).  It is the receiver of
\* the nested builder call only, and what the caller gets is the copy that
\* call makes of it: the object itself is not kept in the heap.
New(h, self) ==
    [source |-> self, name |-> Len(h.qs) + 1, data |-> EmptyData,
     built |-> h.qs[self].built]

\* SqlStream.copy: self._data.copy() (a shallow copy: the lists are shared)
\* handed to make_new, which keeps the meta (name, source).  Returns the
\* heap with the copy allocated as its last query.
Copy(h, rec) == Heap(Append(h.qs, rec), h.ls)

\* SqlStream.add_expression_for(section, expression, inplace=True) on query q.
AddExpressionFor(h, q, section, expression) ==
    IF h.qs[q].data[section] = 0
    THEN Heap([h.qs EXCEPT ![q].data[section] = Len(h.ls) + 1],
              Append(h.ls, <<expression>>))
    ELSE Heap(h.qs,
              [h.ls EXCEPT ![h.qs[q].data[section]] = Append(@, expression)])

\* for expression in expressions: stream.add_expression_for(section, expression)
RECURSIVE AddExpressions(_, _, _, _)
AddExpressions(h, q, section, expressions) ==
    IF expressions = <<>>
    THEN h
    ELSE AddExpressions(AddExpressionFor(h, q, section, Head(expressions)),
                        q, section, Tail(expressions))

\* The query a builder call returns is the last one allocated.
Result(h) == Len(h.qs)

\* Records that the query q came out of the call `call`.
Built(h, q, call) == Heap([h.qs EXCEPT ![q].built = Append(@, call)], h.ls)

Call(op, args) == [op |-> op, args |-> args]

\* -------------------------------------------------- query: builder calls

\* select() that adds to a copy of self whatever SELECT holds already.
SelectNeverWraps(h, self, expressions) ==
    LET h1 == Copy(h, h.qs[self])
    IN  AddExpressions(h1, Result(h1), SelectS, expressions)

\* SqlStream.select(*fields, **expressions); expressions holds both, in the
\* order list_expressions has them.
Select(h, self, expressions) ==
    LET receiver ==
            IF GetExpressionsFor(h, self, SelectS) /= <<>>
            THEN New(h, self)        \* return self.new().select(...)
            ELSE h.qs[self]
        h1 == Copy(h, receiver)
    IN  AddExpressions(h1, Result(h1), SelectS, expressions)

\* SqlStream.filter(*fields, **expressions)
Filter(h, self, expressions) ==
    LET receiver ==
            IF HasAnySection(h, self)
            THEN New(h, self)        \* return self.new().filter(...)
            ELSE h.qs[self]
        h1 == Copy(h, receiver)
    IN  AddExpressions(h1, Result(h1), WhereS, expressions)

\* SqlStream.group_by(*fields, values=None), without values
GroupByFields(h, self, fields) ==
    LET receiver ==
            IF \/ GetExpressionsFor(h, self, SelectS) /= <<>>
               \/ GetExpressionsFor(h, self, GroupByS) /= <<>>
            THEN New(h, self)        \* stream = self.new().group_by(*fields)
            ELSE h.qs[self]
        h1 == Copy(h, receiver)
    IN  AddExpressions(h1, Result(h1), GroupByS, fields)

\* SqlStream.group_by(*fields, values): the grouped stream, and with values
\* stream.select(*fields, *values) on it.  The grouped stream has an empty
\* SELECT, so that select() fills a copy of it; the grouped stream itself
\* is dropped, and the model keeps the copy in its place.
GroupBy(h, self, fields, values) ==
    LET h1 == GroupByFields(h, self, fields)
    IN  IF values /= <<>>
        THEN AddExpressions(h1, Result(h1), SelectS, fields \o values)
        ELSE h1

\* SqlStream.sort(*fields)
Sort(h, self, fields) ==
    LET h1 == Copy(h, h.qs[self])
    IN  AddExpressions(h1, Result(h1), OrderByS, fields)

\* join() that adds to a copy of self whatever self holds already.
JoinNeverWraps(h, self, table, key, how) ==
    LET h1 == Copy(h, h.qs[self])
    IN  AddExpressionFor(h1, Result(h1), JoinS, JoinE(table, key, how))

\* SqlStream.join(table_or_stream, key, how)
Join(h, self, table, key, how) ==
    LET receiver ==
            IF HasAnySection(h, self)
            THEN New(h, self)        \* return self.new().join(...)
            ELSE h.qs[self]
        h1 == Copy(h, receiver)
    IN  AddExpressionFor(h1, Result(h1), JoinS, JoinE(table, key, how))

\* SqlStream.take(count): add_expression_for(Limit, count, inplace=False)
Take(h, self, count) ==
    LET h1 == Copy(h, h.qs[self])
    IN  AddExpressionFor(h1, Result(h1), LimitS, CountE(count))

\* MSG_NOT_IMPL.format(method=method)
MSG_NOT_IMPL(method) ==
    method \o "() operation is not defined for SqlStream, try to use .to_record_stream()."
           \o method \o "() instead"

\* What a call that is not a builder call did: the heap after it, the error
\* it raised and the message of the error.
Outcome(h, raised, message) == [heap |-> h, raised |-> raised, message |-> message]

\* SqlStream.map(function)
Map(h, self) == Outcome(h, "NotImplementedError", MSG_NOT_IMPL("map"))

\* skip() that returns a query of a limit, as take() does.
SkipAsTake(h, self, count) == Outcome(Take(h, self, count), "", EMPTY)

\* SqlStream.skip(count): the method the message names is map
Skip(h, self, count) == Outcome(h, "NotImplementedError", MSG_NOT_IMPL("map"))

\* ----------------------------------------------------- query: rendering

\* SqlStream.get_query_name of a query with the generated name n
QueryName(n) ==
    CASE n = 1 -> "subquery_1"
      [] n = 2 -> "subquery_2"
      [] n = 3 -> "subquery_3"
      [] n = 4 -> "subquery_4"
      [] OTHER -> "subquery_5"

\* SqlStream.get_select_lines
SelectLine(desc) ==
    IF desc.kind = "field"
    THEN desc.name
    ELSE desc.val \o " AS " \o desc.name     \* (target, source)

GetSelectLines(h, q) ==
    LET descriptions == GetExpressionsFor(h, q, SelectS)
    IN  IF descriptions = <<>>
        THEN <<ALL>>
        ELSE [i \in 1..Len(descriptions) |-> SelectLine(descriptions[i])]

\* SqlStream.get_where_lines; IS_DEFINED is '{field} <> 0 and {field} NOT NULL'
WhereLine(description) ==
    CASE description.kind = "field" ->
            description.name \o " <> 0 and " \o description.name \o " NOT NULL"
      [] description.kind = "tuple_str" ->
            description.name \o " = '" \o description.val \o "'"
      [] OTHER ->
            description.name \o " = " \o IntStr(description.n)

GetWhereLines(h, q) ==
    LET descriptions == GetExpressionsFor(h, q, WhereS)
    IN  [i \in 1..Len(descriptions) |-> WhereLine(descriptions[i])]

\* SqlStream.get_groupby_lines, get_orderby_lines: get_name(f)
Names(fields) == [i \in 1..Len(fields) |-> fields[i].name]
GetGroupbyLines(h, q) == Names(GetExpressionsFor(h, q, GroupByS))
GetOrderbyLines(h, q) == Names(GetExpressionsFor(h, q, OrderByS))

\* SqlStream.get_limit_lines: the counts, which the f-string of
\* _format_section_lines turns into text
GetLimitLines(h, q) ==
    LET counts == GetExpressionsFor(h, q, LimitS)
    IN  [i \in 1..Len(counts) |-> IntStr(counts[i].n)]

\* SqlStream.get_join_lines, the other side a table
Indented(line) == SQL_INDENT \o line

GetJoinLines(h, q) ==
    LET join_section == GetExpressionsFor(h, q, JoinS)
        source == h.qs[q].source
        left_subquery_name ==
            IF source = TableSource
            THEN TableQueryName(TablePath)
            ELSE QueryName(h.qs[source].name)
    IN  IF join_section = <<>>
        THEN <<>>
        ELSE IF Len(join_section) /= 1
        THEN <<"AssertionError">>
        ELSE LET j == join_section[1]
                 right_subquery_name == TableQueryName(j.name)
             IN  << JoinTypeName(j.how) \o " JOIN",
                    Indented(j.name),
                    "ON " \o left_subquery_name \o "." \o j.val
                          \o " = " \o right_subquery_name \o "." \o j.val >>

\* SqlStream._format_section_lines
FormatSectionLines(section, lines) ==
    IF lines = <<>>
    THEN <<>>
    ELSE LET indent == IF section = JoinS THEN EMPTY ELSE SQL_INDENT
             title == IF section = JoinS THEN <<>> ELSE <<section>>
             delimiter ==
                 IF section = WhereS THEN "\n" \o indent \o "AND "
                 ELSE IF section \in {FromS, JoinS} THEN EMPTY
                 ELSE ITEMS_DELIMITER
         IN  title \o [n \in 1..Len(lines) |->
                         IF n = Len(lines)
                         THEN indent \o lines[n]
                         ELSE indent \o lines[n] \o delimiter]

\* SqlStream.get_query_lines, with get_from_lines and get_section_lines
RECURSIVE GetQueryLines(_, _, _)

GetFromLines(h, q) ==
    LET from_obj == h.qs[q].source
    IN  IF from_obj = TableSource
        THEN <<TablePath>>
        ELSE <<"(">> \o GetQueryLines(h, from_obj, FALSE)
                     \o <<") AS " \o QueryName(h.qs[from_obj].name)>>

GetSectionLines(h, q, section) ==
    CASE section = SelectS -> GetSelectLines(h, q)
      [] section = FromS -> GetFromLines(h, q)
      [] section = JoinS -> GetJoinLines(h, q)
      [] section = WhereS -> GetWhereLines(h, q)
      [] section = GroupByS -> GetGroupbyLines(h, q)
      [] section = OrderByS -> GetOrderbyLines(h, q)
      [] OTHER -> GetLimitLines(h, q)

\* The block of one section, as the loop of get_query_lines computes it.
SectionBlock(h, q, section) ==
    FormatSectionLines(section, GetSectionLines(h, q, section))

\* for section in SECTIONS_ORDER: query_lines = list(...): every pass assigns
\* query_lines anew.
RECURSIVE QueryLinesLoop(_, _, _, _)
QueryLinesLoop(h, q, i, query_lines) ==
    IF i > Len(SECTIONS_ORDER)
    THEN query_lines
    ELSE QueryLinesLoop(h, q, i + 1, SectionBlock(h, q, SECTIONS_ORDER[i]))

GetQueryLines(h, q, finish) ==
    LET query_lines == QueryLinesLoop(h, q, 1, <<>>)
    IN  IF finish THEN query_lines \o <<";">> ELSE query_lines

\* SqlStream.get_query: '\n'.join(lines)
RECURSIVE JoinLines(_)
JoinLines(lines) ==
    IF lines = <<>> THEN EMPTY
    ELSE IF Len(lines) = 1 THEN lines[1]
    ELSE lines[1] \o "\n" \o JoinLines(Tail(lines))

GetQuery(h, q, finish) == JoinLines(GetQueryLines(h, q, finish))

\* ------------------------------------------------------- query: columns

InSeq(x, seq) == \E i \in 1..Len(seq) : seq[i] = x

\* for c in join_columns: if c not in columns: columns.append(c)
RECURSIVE AppendMissing(_, _)
AppendMissing(columns, join_columns) ==
    IF join_columns = <<>>
    THEN columns
    ELSE AppendMissing(
            IF InSeq(Head(join_columns), columns)
            THEN columns
            ELSE Append(columns, Head(join_columns)),
            Tail(join_columns))

\* SqlStream.get_output_columns (= get_columns), with get_selected_columns
\* and get_input_columns
RECURSIVE GetOutputColumns(_, _)

GetInputColumns(h, q) ==
    IF h.qs[q].source = TableSource
    THEN TableColumns(TablePath)
    ELSE GetOutputColumns(h, h.qs[q].source)

GetOutputColumns(h, q) ==
    LET select_expressions == GetExpressionsFor(h, q, SelectS)
        columns ==
            IF select_expressions = <<>>
            THEN GetInputColumns(h, q)
            ELSE Names(select_expressions)
        join_expressions == GetExpressionsFor(h, q, JoinS)
    IN  IF join_expressions = <<>>
        THEN columns
        ELSE AppendMissing(columns, TableColumns(join_expressions[1].name))

\* ----------------------------------------------------- query: the machine

\* The arguments the builder calls are made with.
SelectArgs == { <<FieldE("id"), FieldE("name")>>, <<AliasE("x", "id")>> }
FilterArgs == { <<TupleIntE("id", 1)>>, <<FieldE("name"), TupleStrE("city", "a")>> }
GroupArgs == { <<FieldE("id")>> }
ValuesArgs == { <<>>, <<FieldE("name")>> }
SortArgs == { <<FieldE("id")>>, <<FieldE("name"), FieldE("id")>> }
JoinHows == { "left", "inner" }
TakeArgs == { 5, 10 }

NoOp == [op |-> "none", self |-> 0, result |-> 0, section |-> EMPTY,
         args |-> <<>>, populated |-> FALSE, any |-> FALSE,
         source |-> 0, before |-> [s \in DataSections |-> <<>>],
         raised |-> FALSE]

NoRender == [q |-> 0, finish |-> FALSE, lines |-> <<>>, text |-> EMPTY]

\* What a query holds in each section of its data dict.
Held(h, q) == [s \in DataSections |-> GetExpressionsFor(h, q, s)]

\* The record of a builder call on self, as the call found it.
OpRecord(op, self, section, args, h1) ==
    LET h == Heap(queries, lists)
    IN  [op |-> op, self |-> self, result |-> Result(h1), section |-> section,
         args |-> args,
         populated |-> GetExpressionsFor(h, self, section) /= <<>>,
         any |-> HasAnySection(h, self),
         source |-> queries[self].source,
         before |-> Held(h, self),
         raised |-> FALSE]

\* A builder call that writes args to its section returned the heap h1: keep
\* it, and what the call was.
Returned(op, self, section, args, h1) ==
    LET h2 == Built(h1, Result(h1), Call(op, args))
    IN  /\ queries' = h2.qs
        /\ lists' = h2.ls
        /\ lastOp' = OpRecord(op, self, section, args, h1)
        /\ rendered' = NoRender
        /\ UNCHANGED <<varsSort, varsGroup, varsJoin, varsStruct, varsExpr, varsEval, varsValid, varsCount, varsFile, varsName, varsType, varsFresh, varsHandle, varsItem>>

QueryInit ==
    /\ queries = << [source |-> TableSource, name |-> 1, data |-> EmptyData,
                     built |-> <<>>] >>
    /\ lists = <<>>
    /\ lastOp = NoOp
    /\ rendered = NoRender
    /\ SortIdle /\ GroupIdle /\ JoinIdle /\ StructIdle /\ ExprIdle /\ EvalIdle /\ ValidIdle /\ CountIdle /\ FileIdle /\ NameIdle /\ TypeIdle /\ FreshIdle /\ HandleIdle /\ ItemIdle

DoSelect ==
    \E self \in 1..Len(queries), expressions \in SelectArgs :
        /\ Len(queries) < MaxQueries
        /\ Returned("select", self, SelectS, expressions,
                    Select(Heap(queries, lists), self, expressions))

DoFilter ==
    \E self \in 1..Len(queries), expressions \in FilterArgs :
        /\ Len(queries) < MaxQueries
        /\ Returned("filter", self, WhereS, expressions,
                    Filter(Heap(queries, lists), self, expressions))

\* group_by with values asserts that the input columns have them all.
DoGroupBy ==
    \E self \in 1..Len(queries), fields \in GroupArgs, values \in ValuesArgs :
        /\ Len(queries) < MaxQueries
        /\ IF \A i \in 1..Len(values) :
                 InSeq(values[i].name, GetInputColumns(Heap(queries, lists), self))
           THEN Returned("group_by", self, GroupByS, fields,
                         GroupBy(Heap(queries, lists), self, fields, values))
           ELSE /\ lastOp' = [OpRecord("group_by", self, GroupByS, fields,
                                       Heap(queries, lists))
                                EXCEPT !.result = 0, !.raised = TRUE]
                /\ rendered' = NoRender
                /\ UNCHANGED <<queries, lists>>
                /\ UNCHANGED <<varsSort, varsGroup, varsJoin, varsStruct, varsExpr, varsEval, varsValid, varsCount, varsFile, varsName, varsType, varsFresh, varsHandle, varsItem>>

DoSort ==
    \E self \in 1..Len(queries), fields \in SortArgs :
        /\ Len(queries) < MaxQueries
        /\ Returned("sort", self, OrderByS, fields,
                    Sort(Heap(queries, lists), self, fields))

DoJoin ==
    \E self \in 1..Len(queries), how \in JoinHows :
        /\ Len(queries) < MaxQueries
        /\ Returned("join", self, JoinS, <<JoinE(JoinTable, "id", how)>>,
                    Join(Heap(queries, lists), self, JoinTable, "id", how))

DoTake ==
    \E self \in 1..Len(queries), count \in TakeArgs :
        /\ Len(queries) < MaxQueries
        /\ Returned("take", self, LimitS, <<CountE(count)>>,
                    Take(Heap(queries, lists), self, count))

\* A call that is no builder call returned or raised: keep the heap it
\* left, and what the call found and did.
Failed(op, self, outcome) ==
    /\ queries' = outcome.heap.qs
    /\ lists' = outcome.heap.ls
    /\ lastOp' = [op |-> op, self |-> self, raised |-> outcome.raised /= "",
                  error |-> outcome.raised, message |-> outcome.message,
                  queries |-> queries, lists |-> lists,
                  before |-> Held(Heap(queries, lists), self),
                  text |-> GetQuery(Heap(queries, lists), self, TRUE)]
    /\ rendered' = NoRender
    /\ UNCHANGED <<varsSort, varsGroup, varsJoin, varsStruct, varsExpr, varsEval, varsValid, varsCount, varsFile, varsName, varsType, varsFresh, varsHandle, varsItem>>

DoMap ==
    \E self \in 1..Len(queries) :
        Failed("map", self, Map(Heap(queries, lists), self))

DoSkip ==
    \E self \in 1..Len(queries), count \in TakeArgs :
        Failed("skip", self, Skip(Heap(queries, lists), self, count))

\* get_query_lines(finish) and get_query(finish) of a query
DoRender ==
    \E q \in 1..Len(queries), finish \in BOOLEAN :
        /\ rendered' = [q |-> q, finish |-> finish,
                        lines |-> GetQueryLines(Heap(queries, lists), q, finish),
                        text |-> GetQuery(Heap(queries, lists), q, finish)]
        /\ UNCHANGED <<queries, lists, lastOp>>
        /\ UNCHANGED <<varsSort, varsGroup, varsJoin, varsStruct, varsExpr, varsEval, varsValid, varsCount, varsFile, varsName, varsType, varsFresh, varsHandle, varsItem>>

QueryNext ==
    \/ DoSelect
    \/ DoFilter
    \/ DoGroupBy
    \/ DoSort
    \/ DoJoin
    \/ DoTake
    \/ DoMap
    \/ DoSkip
    \/ DoRender

SpecQuery == QueryInit /\ [][QueryNext]_varsQuery

\* ------------------------------------------------------- query: claims

TheHeap == Heap(queries, lists)

BuilderOps == {"select", "filter", "group_by", "sort", "join", "take"}

\* The last call was a builder call that returned a query.
Called == lastOp.op \in BuilderOps /\ ~lastOp.raised

\* The returned query is a new query that wraps the receiver as its FROM.
Wrapped ==
    /\ lastOp.result /= lastOp.self
    /\ queries[lastOp.result].source = lastOp.self

\* The returned query is at the level of the receiver: it has the FROM the
\* receiver had.
SameLevel == queries[lastOp.result].source = lastOp.source

\* C5: select() on a Query whose SELECT section is already populated returns
\* a distinct Query that wraps the first one as its FROM (its source is the
\* Query select() was called on) and holds the new selection only.
C5_SelectWrapsPopulated ==
    (Called /\ lastOp.op = "select" /\ lastOp.populated) =>
        /\ Wrapped
        /\ Held(TheHeap, lastOp.result)[SelectS] = lastOp.args
        /\ Held(TheHeap, lastOp.self)[SelectS] = lastOp.before[SelectS]

C5_Witness ==
    /\ Called /\ lastOp.op = "select" /\ lastOp.populated
    /\ Wrapped
    /\ lastOp.source = TableSource

\* C6: whichever of select, filter, group_by, sort, join and take is called
\* on a Query whose section for that operation is already populated, the
\* operation is applied to a new Query whose FROM is the current Query, and
\* nothing is added to the populated section.
C6_PopulatedSectionWraps ==
    (Called /\ lastOp.populated) =>
        /\ Wrapped
        /\ Held(TheHeap, lastOp.self)[lastOp.section] = lastOp.before[lastOp.section]

\* C7: whichever builder operation is called on a Query whose section for
\* that operation is empty, its expressions go into that section at the
\* same query level (the result has the FROM of the current Query),
\* whatever the other sections hold.
C7_EmptySectionAppends ==
    (Called /\ ~lastOp.populated) =>
        /\ SameLevel
        /\ Held(TheHeap, lastOp.result)[lastOp.section] = lastOp.args

\* The clause blocks of the populated sections of the rendered query, in
\* the order of SECTIONS_ORDER.
RenderedBlocks ==
    SelectSeq([i \in 1..Len(SECTIONS_ORDER) |->
                  SectionBlock(TheHeap, rendered.q, SECTIONS_ORDER[i])],
              LAMBDA block : block /= <<>>)

\* C8: the rendered text of a Query holds the clause block of every
\* populated section, the blocks in the order SELECT, FROM, JOIN, WHERE,
\* GROUP BY, ORDER BY, LIMIT.
C8_AllBlocksInOrder ==
    rendered.q /= 0 =>
        /\ \A i \in 1..Len(RenderedBlocks) :
              Contains(rendered.lines, RenderedBlocks[i])
        /\ \A i, j \in 1..Len(RenderedBlocks) :
              i < j => FirstPos(rendered.lines, RenderedBlocks[i])
                         < FirstPos(rendered.lines, RenderedBlocks[j])

\* C9: the Query built over the table t by select(id, name) and then
\* filter(id=1) renders, with the terminator, as the text
\* "SELECT id, name\nFROM t\nWHERE id = 1;".
C9_Scenario ==
    ( /\ rendered.q /= 0
      /\ rendered.finish
      /\ queries[rendered.q].built =
            << Call("select", <<FieldE("id"), FieldE("name")>>),
               Call("filter", <<TupleIntE("id", 1)>>) >> )
    => rendered.text = "SELECT id, name\nFROM t\nWHERE id = 1;"

\* The lines of a clause of the rendered query joined as the clause asks:
\* by " AND" line breaks for WHERE, by nothing for FROM and JOIN, by commas
\* for the others.
JoinedClause(section) ==
    LET lines == GetSectionLines(TheHeap, rendered.q, section)
        delimiter ==
            IF section = WhereS THEN "\n" \o SQL_INDENT \o "AND "
            ELSE IF section \in {FromS, JoinS} THEN EMPTY
            ELSE ITEMS_DELIMITER
        indent == IF section = JoinS THEN EMPTY ELSE SQL_INDENT
    IN  [n \in 1..Len(lines) |->
            IF n = Len(lines)
            THEN indent \o lines[n]
            ELSE indent \o lines[n] \o delimiter]

\* C10: in the rendered text the expressions of a clause of several
\* expressions are comma-joined, those of WHERE AND-joined and those of FROM
\* and JOIN unseparated, and the text ends with ';' when the terminator is
\* asked for and holds no ';' when it is not.
C10_ClausesJoinedAndTerminated ==
    rendered.q /= 0 =>
        /\ \A i \in 1..Len(SECTIONS_ORDER) :
              Len(GetSectionLines(TheHeap, rendered.q, SECTIONS_ORDER[i])) >= 2
                => Contains(rendered.lines, JoinedClause(SECTIONS_ORDER[i]))
        /\ rendered.finish =>
              /\ rendered.lines /= <<>>
              /\ rendered.lines[Len(rendered.lines)] = ";"
        /\ ~rendered.finish =>
              \A i \in 1..Len(rendered.lines) : rendered.lines[i] /= ";"

\* C25: no builder operation changes the Query it is called on: after the
\* call the receiver holds in every section the expressions it held before
\* the call (and so renders the same text), whether the returned Query is a
\* copy of it or wraps it.
C25_ReceiverUnchanged ==
    Called => Held(TheHeap, lastOp.self) = lastOp.before

\* A builder operation that finds its own section empty leaves the receiver
\* as it was.
ReceiverUnchangedIfSectionEmpty ==
    (Called /\ ~lastOp.populated) => Held(TheHeap, lastOp.self) = lastOp.before

\* C28: every Query that the builder operations lead to holds at most one
\* join in its JOIN section, so that no rendering fails the assertion of a
\* single join; join() on a Query that has a join gives a new Query that
\* wraps it.
C28_AtMostOneJoin ==
    /\ \A q \in 1..Len(queries) : Len(Held(TheHeap, q)[JoinS]) <= 1
    /\ rendered.q /= 0 => ~InSeq("AssertionError", rendered.lines)
    /\ (Called /\ lastOp.op = "join" /\ lastOp.before[JoinS] /= <<>>) =>
          /\ Wrapped
          /\ Held(TheHeap, lastOp.self)[JoinS] = lastOp.before[JoinS]

\* join() was called on a Query that had a join, and returned a Query of
\* one join that wraps it.
C28_Witness ==
    /\ Called /\ lastOp.op = "join" /\ lastOp.before[JoinS] /= <<>>
    /\ Wrapped
    /\ Len(Held(TheHeap, lastOp.result)[JoinS]) = 1
    /\ Len(Held(TheHeap, lastOp.self)[JoinS]) = 1

\* The last call was map() or skip().
CalledUnsupported == lastOp.op \in {"map", "skip"}

\* C23: map() and skip() on a Query fail at once with an error of an
\* operation that is not supported, whose message sends the caller to the
\* record stream of the query (to_record_stream()); the call executes
\* nothing and leaves the query, and every other query, as it was.
C23_MapAndSkipFail ==
    CalledUnsupported =>
        /\ lastOp.raised /\ lastOp.error = "NotImplementedError"
        /\ Contains(lastOp.message, ".to_record_stream().")
        /\ queries = lastOp.queries /\ lists = lastOp.lists
        /\ Held(TheHeap, lastOp.self) = lastOp.before
        /\ GetQuery(TheHeap, lastOp.self, TRUE) = lastOp.text

\* skip() was called on a query that holds a selection and a filter.
C23_Witness ==
    /\ lastOp.op = "skip" /\ lastOp.raised
    /\ lastOp.before[SelectS] /= <<>>
    /\ lastOp.before[WhereS] /= <<>>

\* ------------------------------------------------------------ sort: keys

\* The records of the sorted streams: two fields of small values.
SortFields == {"a", "b"}
SortValues == {1, 2}
SortRecords == [SortFields -> SortValues]

\* Keys compare as Python tuples do; the value of a single key field is
\* held as the tuple of that one value, which compares the same way.
RECURSIVE KeyLess(_, _)
KeyLess(k1, k2) ==
    IF k1 = <<>> \/ k2 = <<>>
    THEN k1 = <<>> /\ k2 /= <<>>
    ELSE \/ Head(k1) < Head(k2)
         \/ Head(k1) = Head(k2) /\ KeyLess(Tail(k1), Tail(k2))

\* RecordStream._get_key_function(descriptions) applied to the record r:
\* value_from_record for one description, tuple_from_record for several.
GetKeyFunction(descriptions, r) ==
    IF Len(descriptions) = 1
    THEN <<r[descriptions[1]]>>
    ELSE [i \in 1..Len(descriptions) |-> r[descriptions[i]]]

\* key_pairs.get_key: pair[0], the records read as the pairs (a, b)
GetKey(pair) == <<pair["a"]>>

\* ------------------------------------------------------ sort: algorithms

\* hash(k) of CPython for the key k: the value itself for the small integer
\* a single key field has, and for the tuples of two fields the place of
\* the hash of the tuple among the hashes of these tuples
\* (hash((1, 2)) < hash((2, 2)) < hash((2, 1)) < hash((1, 1))).  hash(-1)
\* is -2, as hash(-2) is, and so the tuples (1, -1) and (1, -2) have one
\* hash, which is less than the hashes of the other tuples.
PyHash(k) ==
    IF Len(k) = 1 THEN (IF k[1] = -1 THEN -2 ELSE k[1])
    ELSE CASE k \in {<<1, -1>>, <<1, -2>>} -> 0
           [] k = <<1, 2>> -> 1
           [] k = <<2, 2>> -> 2
           [] k = <<2, 1>> -> 3
           [] k = <<1, 1>> -> 4

\* A key function is named by a record: the key of the pairs, the key
\* function of the given descriptions, or the hash of that key (take_hash).
PairKey == [kind |-> "pair", descriptions |-> <<>>]
RecordKey(descriptions) == [kind |-> "record", descriptions |-> descriptions]
HashKey(descriptions) == [kind |-> "hash", descriptions |-> descriptions]
ApplyKey(key, item) ==
    IF key.kind = "pair" THEN GetKey(item)
    ELSE IF key.kind = "hash" THEN <<PyHash(GetKeyFunction(key.descriptions, item))>>
    ELSE GetKeyFunction(key.descriptions, item)

\* Whether the item of key k1 goes before the item of key k2.
Before(k1, k2, reverse) == IF reverse THEN KeyLess(k2, k1) ELSE KeyLess(k1, k2)

\* memory_sort(key, reverse): a stable sort of the materialized items.  An
\* item is put behind every item that does not go after it.
RECURSIVE MemorySort(_, _, _)
MemorySort(items, key, reverse) ==
    IF items = <<>>
    THEN <<>>
    ELSE LET done == MemorySort(SubSeq(items, 1, Len(items) - 1), key, reverse)
             x == items[Len(items)]
             n == Cardinality({i \in 1..Len(done) :
                     ~Before(ApplyKey(key, x), ApplyKey(key, done[i]), reverse)})
         IN  SubSeq(done, 1, n) \o <<x>> \o SubSeq(done, n + 1, Len(done))

\* The chunks of at most step items, in the order of the input.
RECURSIVE Chunks(_, _)
Chunks(items, step) ==
    IF Len(items) <= step
    THEN (IF items = <<>> THEN <<>> ELSE <<items>>)
    ELSE <<SubSeq(items, 1, step)>> \o Chunks(SubSeq(items, step + 1, Len(items)), step)

\* The k-way merge of the sorted segments: the head that goes first among
\* the open cursors is emitted, a tie going to the earliest chunk; the
\* cursor of an exhausted chunk is closed.
RECURSIVE MergeSegments(_, _, _)
MergeSegments(segments, key, reverse) ==
    LET open == {i \in 1..Len(segments) : segments[i] /= <<>>}
        HeadKey(i) == ApplyKey(key, Head(segments[i]))
        pick == CHOOSE i \in open : \A j \in open :
                    /\ ~Before(HeadKey(j), HeadKey(i), reverse)
                    /\ (j < i => Before(HeadKey(i), HeadKey(j), reverse))
    IN  IF open = {}
        THEN <<>>
        ELSE <<Head(segments[pick])>>
             \o MergeSegments([segments EXCEPT ![pick] = Tail(@)], key, reverse)

\* disk_sort(key, reverse, step): every chunk is sorted by memory_sort and
\* written to its own segment, and the segments are merged.
DiskSort(items, key, reverse, step) ==
    LET chunks == Chunks(items, step)
    IN  MergeSegments([i \in 1..Len(chunks) |-> MemorySort(chunks[i], key, reverse)],
                      key, reverse)

\* --------------------------------------------------------- sort: machine

\* AUTO: the step is not given
AUTO == 0
MAX_ITEMS_IN_MEMORY == 5000000

SortKeys == {<<>>, <<"a">>, <<"b", "a">>}

RECURSIVE SeqsUpTo(_, _)
SeqsUpTo(S, n) ==
    IF n = 0 THEN {<<>>}
    ELSE LET shorter == SeqsUpTo(S, n - 1)
         IN  shorter \cup {Append(q, x) : q \in {t \in shorter : Len(t) = n - 1}, x \in S}

\* The step that is used: the limit of the items in memory for AUTO.
StepOf(step) == IF step = AUTO THEN MAX_ITEMS_IN_MEMORY ELSE step

\* can_be_in_memory(step): the count of the items is below the limit.
CanBeInMemory(case, step) == Len(case.items) < step

SortCall(op, path, step, items) ==
    [op |-> op, path |-> path, step |-> step, raised |-> "", out |-> items]
SortRaised(op, error) ==
    [op |-> op, path |-> "", step |-> AUTO, raised |-> error, out |-> <<>>]

\* The sort that orders the disk path the other way round.
SortWithDiskPathInverted(case, keys, reverse, step) ==
    IF Len(keys) = 0
    THEN SortRaised("sort", "ValueError")
    ELSE IF CanBeInMemory(case, StepOf(step))
    THEN SortCall("sort", "memory", StepOf(step), MemorySort(case.items, RecordKey(keys), reverse))
    ELSE SortCall("sort", "disk", StepOf(step),
                  DiskSort(case.items, RecordKey(keys), ~reverse, StepOf(step)))

\* RecordStream.sort(*keys, reverse, step)
RecordSort(case, keys, reverse, step) ==
    IF Len(keys) = 0
    THEN SortRaised("sort", "ValueError")
    ELSE IF CanBeInMemory(case, StepOf(step))
    THEN SortCall("sort", "memory", StepOf(step), MemorySort(case.items, RecordKey(keys), reverse))
    ELSE SortCall("sort", "disk", StepOf(step),
                  DiskSort(case.items, RecordKey(keys), reverse, StepOf(step)))

\* KeyValueStream.memory_sort_by_key(reverse)
MemorySortByKey(case, reverse) ==
    SortCall("memory_sort_by_key", "memory", AUTO, MemorySort(case.items, PairKey, reverse))

\* KeyValueStream.disk_sort_by_key(reverse, step)
DiskSortByKey(case, reverse, step) ==
    SortCall("disk_sort_by_key", "disk", StepOf(step),
             DiskSort(case.items, PairKey, reverse, StepOf(step)))

SortInit ==
    /\ sortCase \in [items : SeqsUpTo(SortRecords, MaxSortLen),
                      keys : SortKeys, reverse : BOOLEAN]
    /\ sortDone = Idle
    /\ QueryIdle /\ GroupIdle /\ JoinIdle /\ StructIdle /\ ExprIdle /\ EvalIdle /\ ValidIdle /\ CountIdle /\ FileIdle /\ NameIdle /\ TypeIdle /\ FreshIdle /\ HandleIdle /\ ItemIdle

SortReturned(call) ==
    /\ sortDone' = call
    /\ UNCHANGED <<sortCase, varsQuery, varsGroup, varsJoin, varsStruct, varsExpr, varsEval, varsValid, varsCount, varsFile, varsName, varsType, varsFresh, varsHandle, varsItem>>

DoMemorySort ==
    /\ sortCase.keys /= <<>>
    /\ SortReturned(SortCall("memory_sort", "memory", AUTO,
            MemorySort(sortCase.items, RecordKey(sortCase.keys), sortCase.reverse)))

DoDiskSort ==
    \E step \in 1..MaxStep :
        /\ sortCase.keys /= <<>>
        /\ SortReturned(SortCall("disk_sort", "disk", step,
                DiskSort(sortCase.items, RecordKey(sortCase.keys), sortCase.reverse, step)))

DoRecordSort ==
    \E step \in {AUTO} \cup 1..MaxStep :
        SortReturned(RecordSort(sortCase, sortCase.keys, sortCase.reverse, step))

DoMemorySortByKey == SortReturned(MemorySortByKey(sortCase, sortCase.reverse))

DoDiskSortByKey ==
    \E step \in {AUTO} \cup 1..MaxStep :
        SortReturned(DiskSortByKey(sortCase, sortCase.reverse, step))

SortNext ==
    \/ DoMemorySort
    \/ DoDiskSort
    \/ DoRecordSort
    \/ DoMemorySortByKey
    \/ DoDiskSortByKey

SpecSort == SortInit /\ [][SortNext]_varsSort

\* ---------------------------------------------------------- sort: claims

\* The key of an item as the claim reads it: the values of the key fields.
SortedByKey(r, fields) == [i \in 1..Len(fields) |-> r[fields[i]]]

\* out is items stably sorted: the keys never go back, and the items of
\* every key are the items of that key in the input, in the order they have
\* there; so no item is lost, added or repeated.
IsStablySorted(out, items, fields, reverse) ==
    /\ Len(out) = Len(items)
    /\ \A i, j \in 1..Len(out) : i < j =>
           LET ki == SortedByKey(out[i], fields)
               kj == SortedByKey(out[j], fields)
           IN  ~(IF reverse THEN KeyLess(ki, kj) ELSE KeyLess(kj, ki))
    /\ \A x \in {items[i] : i \in 1..Len(items)} \cup {out[i] : i \in 1..Len(out)} :
           LET OfKey(y) == SortedByKey(y, fields) = SortedByKey(x, fields)
           IN  SelectSeq(out, OfKey) = SelectSeq(items, OfKey)

\* The key fields of the last call: the first element of the pair for the
\* sorts by key.
SortedFields ==
    IF sortDone.op \in {"memory_sort_by_key", "disk_sort_by_key"}
    THEN <<"a">> ELSE sortCase.keys

\* C1: whatever the input, the key and the chunk size k >= 1, disk_sort
\* with step k yields the items memory_sort yields, and what every sort
\* call returns (sort on either path, memory_sort, disk_sort and the sorts
\* by key) is the input stably sorted by the key.
C1_SortPathsAgree ==
    /\ sortCase.keys /= <<>> =>
         \A k \in 1..MaxStep :
            DiskSort(sortCase.items, RecordKey(sortCase.keys), sortCase.reverse, k)
            = MemorySort(sortCase.items, RecordKey(sortCase.keys), sortCase.reverse)
    /\ (sortDone.op /= "none" /\ sortDone.raised = "") =>
         IsStablySorted(sortDone.out, sortCase.items, SortedFields, sortCase.reverse)

\* sort() took the disk path over several chunks, and two different items
\* of one key, met in different chunks, came out with an item between them
\* in the input put elsewhere.
C1_Witness ==
    /\ sortDone.op = "sort" /\ sortDone.path = "disk" /\ sortDone.step = 1
    /\ Len(sortCase.items) = 3
    /\ sortCase.keys = <<"a">>
    /\ sortCase.items[1]["a"] = sortCase.items[3]["a"]
    /\ sortCase.items[1] /= sortCase.items[3]
    /\ sortCase.items[2]["a"] /= sortCase.items[1]["a"]
    /\ sortDone.out /= sortCase.items

\* -------------------------------------------------------- group: machine

\* None, the key before the first item; no key of an item equals it.
None == <<>>

\* A group as it is yielded: the list of the items, or the pair of the key
\* and the list.
Group(as_pairs, k, accumulated) == IF as_pairs THEN <<k, accumulated>> ELSE accumulated

\* AnyStream._get_groups(key_function, as_pairs): the loop from the item i
\* on, and the yield after the loop.
RECURSIVE GetGroupsLoop(_, _, _, _, _, _, _)
GetGroupsLoop(items, i, key, as_pairs, prev_k, accumulated, yielded) ==
    IF i > Len(items)
    THEN Append(yielded, Group(as_pairs, prev_k, accumulated))
    ELSE LET r == items[i]
             k == ApplyKey(key, r)
             flush == k /= prev_k /\ accumulated /= <<>>
         IN  GetGroupsLoop(items, i + 1, key, as_pairs, k,
                 IF flush THEN <<r>> ELSE Append(accumulated, r),
                 IF flush THEN Append(yielded, Group(as_pairs, prev_k, accumulated))
                 ELSE yielded)

GetGroups(items, key, as_pairs) ==
    GetGroupsLoop(items, 1, key, as_pairs, None, <<>>, <<>>)

\* get_groups() of KeyValueStream.sorted_group_by_key: the pairs (k, v) are
\* the records (a, b); the values are accumulated.
RECURSIVE GetGroupsByKeyLoop(_, _, _, _, _)
GetGroupsByKeyLoop(data, i, prev_k, accumulated, yielded) ==
    IF i > Len(data)
    THEN Append(yielded, <<prev_k, accumulated>>)
    ELSE LET k == GetKey(data[i])
             v == data[i]["b"]
             flush == k /= prev_k /\ accumulated /= <<>>
         IN  GetGroupsByKeyLoop(data, i + 1, k,
                 IF flush THEN <<v>> ELSE Append(accumulated, v),
                 IF flush THEN Append(yielded, <<prev_k, accumulated>>) ELSE yielded)

GroupCall(op, as_pairs, groups) ==
    [op |-> op, as_pairs |-> as_pairs, raised |-> "", groups |-> groups]

\* RecordStream.sorted_group_by(*keys, values=None, as_pairs)
SortedGroupBy(items, keys, as_pairs) ==
    IF Len(keys) = 0
    THEN [op |-> "sorted_group_by", as_pairs |-> as_pairs, raised |-> "ValueError",
          groups |-> <<>>]
    ELSE GroupCall("sorted_group_by", as_pairs, GetGroups(items, RecordKey(keys), as_pairs))

\* KeyValueStream.sorted_group_by_key()
SortedGroupByKey(data) ==
    GroupCall("sorted_group_by_key", TRUE, GetGroupsByKeyLoop(data, 1, None, <<>>, <<>>))

\* The records that are grouped: the records that are sorted, and two
\* records whose values of a, -1 and -2, differ and have one hash.
GroupRecords == SortRecords \cup {[a |-> -1, b |-> 1], [a |-> -2, b |-> 1]}

GroupInit ==
    /\ groupCase \in [items : SeqsUpTo(GroupRecords, MaxGroupLen), keys : SortKeys]
    /\ groupDone = Idle
    /\ QueryIdle /\ SortIdle /\ JoinIdle /\ StructIdle /\ ExprIdle /\ EvalIdle /\ ValidIdle /\ CountIdle /\ FileIdle /\ NameIdle /\ TypeIdle /\ FreshIdle /\ HandleIdle /\ ItemIdle

GroupReturned(call) ==
    /\ groupDone' = call
    /\ UNCHANGED <<groupCase, varsQuery, varsSort, varsJoin, varsStruct, varsExpr, varsEval, varsValid, varsCount, varsFile, varsName, varsType, varsFresh, varsHandle, varsItem>>

DoSortedGroupBy ==
    \E as_pairs \in BOOLEAN :
        GroupReturned(SortedGroupBy(groupCase.items, groupCase.keys, as_pairs))

DoSortedGroupByKey == GroupReturned(SortedGroupByKey(groupCase.items))

\* sort(key_for_sort, step=step) of a sort key that is one description: a
\* function of the record, or the list of the key fields.
SortByDescription(items, key, step) ==
    IF Len(items) < StepOf(step)
    THEN MemorySort(items, key, FALSE)
    ELSE DiskSort(items, key, FALSE, StepOf(step))

\* RecordStream.group_by(*keys, values=None, as_pairs, take_hash=True, step)
RecordGroupBy(items, keys, as_pairs, step) ==
    IF Len(keys) = 0
    THEN [op |-> "group_by", as_pairs |-> as_pairs, raised |-> "IndexError",
          groups |-> <<>>]
    ELSE LET key_for_sort == IF as_pairs THEN RecordKey(keys) ELSE HashKey(keys)
             sorted_stream == SortByDescription(items, key_for_sort, step)
         IN  [SortedGroupBy(sorted_stream, keys, as_pairs) EXCEPT !.op = "group_by"]

\* ColumnarMixin.group_by(*keys, values=None, as_pairs):
\* self.sort(*keys).sorted_group_by(*keys, ...)
ColumnarGroupBy(items, keys, as_pairs) ==
    LET sorted_stream == RecordSort([items |-> items], keys, FALSE, AUTO)
    IN  IF sorted_stream.raised /= ""
        THEN [op |-> "columnar_group_by", as_pairs |-> as_pairs,
              raised |-> sorted_stream.raised, groups |-> <<>>]
        ELSE [SortedGroupBy(sorted_stream.out, keys, as_pairs)
                 EXCEPT !.op = "columnar_group_by"]

DoRecordGroupBy ==
    \E as_pairs \in BOOLEAN, step \in {AUTO} \cup 1..MaxStep :
        GroupReturned(RecordGroupBy(groupCase.items, groupCase.keys, as_pairs, step))

DoColumnarGroupBy ==
    \E as_pairs \in BOOLEAN :
        GroupReturned(ColumnarGroupBy(groupCase.items, groupCase.keys, as_pairs))

GroupNext ==
    \/ DoSortedGroupBy
    \/ DoSortedGroupByKey
    \/ DoRecordGroupBy
    \/ DoColumnarGroupBy

SpecGroup == GroupInit /\ [][GroupNext]_varsGroup

\* --------------------------------------------------------- group: claims

\* The key fields of the last grouping call.
GroupedFields ==
    IF groupDone.op = "sorted_group_by_key" THEN <<"a">> ELSE groupCase.keys

\* The input is ordered by the key: the keys never go back.
IsOrderedByKey(items, fields) ==
    \A i \in 1..Len(items) - 1 :
        ~KeyLess(SortedByKey(items[i + 1], fields), SortedByKey(items[i], fields))

\* The contiguous runs of equal-key items, in the order they are met.
Runs(items, fields) ==
    LET starts == {i \in 1..Len(items) :
                     i = 1 \/ SortedByKey(items[i], fields) /= SortedByKey(items[i - 1], fields)}
        Nth(j) == CHOOSE t \in starts : Cardinality({u \in starts : u < t}) = j - 1
        EndOf(j) == IF j = Cardinality(starts) THEN Len(items) ELSE Nth(j + 1) - 1
    IN  [j \in 1..Cardinality(starts) |-> SubSeq(items, Nth(j), EndOf(j))]

\* The items a yielded group stands for.
GroupedItems(g) ==
    IF groupDone.op = "sorted_group_by_key"
    THEN [n \in 1..Len(g[2]) |-> [a |-> g[1][1], b |-> g[2][n]]]
    ELSE IF groupDone.as_pairs THEN g[2] ELSE g

\* C2: of an input ordered by the key, sorted_group_by and
\* sorted_group_by_key yield exactly the contiguous runs of equal-key items,
\* one group for each run and no other group, in the order they are met;
\* a group yielded as a pair carries the key of its run.
C2_GroupsAreTheRuns ==
    (/\ groupDone.op \in {"sorted_group_by", "sorted_group_by_key"}
     /\ groupDone.raised = ""
     /\ IsOrderedByKey(groupCase.items, GroupedFields))
    => /\ [j \in 1..Len(groupDone.groups) |-> GroupedItems(groupDone.groups[j])]
          = Runs(groupCase.items, GroupedFields)
       /\ groupDone.as_pairs =>
             \A j \in 1..Len(groupDone.groups) :
                 /\ GroupedItems(groupDone.groups[j]) /= <<>>
                 /\ groupDone.groups[j][1]
                    = SortedByKey(GroupedItems(groupDone.groups[j])[1], GroupedFields)

\* What sort(keys) followed by sorted_group_by(keys, as_pairs) yields.
SortThenSortedGroupBy(items, keys, as_pairs) ==
    SortedGroupBy(RecordSort([items |-> items], keys, FALSE, AUTO).out, keys, as_pairs)

\* C11: for every stream and every list of keys, group_by(keys) returns
\* what sort(keys) followed by sorted_group_by(keys) returns on the same
\* stream: the same groups, of the same contents, in the same order.
C11_GroupByIsSortThenGroup ==
    (groupDone.op \in {"group_by", "columnar_group_by"} /\ groupDone.raised = "")
    => groupDone.groups
       = SortThenSortedGroupBy(groupCase.items, groupCase.keys, groupDone.as_pairs).groups

\* The key of a group that is yielded as the list of its items.
KeyOfGroup(g) == SortedByKey(g[1], groupCase.keys)

\* group_by was called with its default arguments and returned.
GroupedByDefault ==
    groupDone.op = "group_by" /\ ~groupDone.as_pairs /\ groupDone.raised = ""

\* C26: group_by(keys) with its default arguments puts all the items of one
\* key into one group: no two groups it yields have the same key, whatever
\* the order of the input is, and also when keys that differ have one hash.
C26_OneGroupForEachKey ==
    GroupedByDefault =>
        \A i, j \in 1..Len(groupDone.groups) :
            (/\ i /= j
             /\ groupDone.groups[i] /= <<>> /\ groupDone.groups[j] /= <<>>)
            => KeyOfGroup(groupDone.groups[i]) /= KeyOfGroup(groupDone.groups[j])

\* The values of the key field of the items have hashes that differ.
NoHashCollision ==
    \A i, j \in 1..Len(groupCase.items) :
        LET ki == GetKeyFunction(groupCase.keys, groupCase.items[i])
            kj == GetKeyFunction(groupCase.keys, groupCase.items[j])
        IN  PyHash(ki) = PyHash(kj) => ki = kj

\* Where no two keys that differ have one hash, group_by yields one group
\* for each key.
OneGroupForEachKeyIfHashesDiffer ==
    (GroupedByDefault /\ NoHashCollision) =>
        \A i, j \in 1..Len(groupDone.groups) :
            (/\ i /= j
             /\ groupDone.groups[i] /= <<>> /\ groupDone.groups[j] /= <<>>)
            => KeyOfGroup(groupDone.groups[i]) /= KeyOfGroup(groupDone.groups[j])

\* --------------------------------------------------------- join: machine

\* The value of a field that an item does not have a value for.
Null == 0

JoinIds == {1, 2}
Hows == {"left", "right", "inner", "outer", "full"}

\* The left items (id, a) and the right items (id, b) of the given ids; a
\* and b number the items, so that no two items of a stream are equal.
LeftItems(ids) == [i \in 1..Len(ids) |-> [id |-> ids[i], a |-> i]]
RightItems(ids) == [i \in 1..Len(ids) |-> [id |-> ids[i], b |-> i]]

\* composite_key(key) of the key field id
JoinKey(item) == <<item["id"]>>

\* merge_two_items: the fields of both items; the key field is equal in
\* both.  An item of one side only has no value for the fields of the other.
MergeTwoItems(first, second) == [id |-> first["id"], a |-> first["a"], b |-> second["b"]]
LeftOnly(first) == [id |-> first["id"], a |-> first["a"], b |-> Null]
RightOnly(second) == [id |-> second["id"], a |-> Null, b |-> second["b"]]

\* The right items a left item is merged with: the item the index holds for
\* its key if the right side is unique (the last one of that key), else all
\* the right items of its key.
RightMatches(first, right_items, uniq_right) ==
    LET same == {j \in 1..Len(right_items) : JoinKey(right_items[j]) = JoinKey(first)}
        IsMatch(x) == JoinKey(x) = JoinKey(first)
    IN  IF same = {} THEN <<>>
        ELSE IF uniq_right
        THEN <<right_items[CHOOSE j \in same : \A n \in same : n <= j]>>
        ELSE SelectSeq(right_items, IsMatch)

\* What the left items from the item i on are joined to.
RECURSIVE JoinedLeft(_, _, _, _, _)
JoinedLeft(left_items, i, right_items, how, uniq_right) ==
    IF i > Len(left_items)
    THEN <<>>
    ELSE LET first == left_items[i]
             matches == RightMatches(first, right_items, uniq_right)
             out == IF matches /= <<>>
                    THEN [n \in 1..Len(matches) |-> MergeTwoItems(first, matches[n])]
                    ELSE IF how \in {"left", "outer", "full"}
                    THEN <<LeftOnly(first)>>
                    ELSE <<>>
         IN  out \o JoinedLeft(left_items, i + 1, right_items, how, uniq_right)

\* The right items that no left item has the key of.
UnmatchedRight(left_items, right_items, uniq_right) ==
    LET Unmatched(j) ==
            /\ \A i \in 1..Len(left_items) : JoinKey(left_items[i]) /= JoinKey(right_items[j])
            /\ uniq_right => \A n \in 1..Len(right_items) :
                   JoinKey(right_items[n]) = JoinKey(right_items[j]) => n <= j
        kept == {j \in 1..Len(right_items) : Unmatched(j)}
        Nth(m) == CHOOSE j \in kept : Cardinality({n \in kept : n < j}) = m - 1
    IN  [m \in 1..Cardinality(kept) |-> RightOnly(right_items[Nth(m)])]

\* algo.map_side_join(iter_left, iter_right, key_function, merge_function,
\* dict_function, how, uniq_right)
AlgoMapSideJoin(left_items, right_items, how, uniq_right) ==
    JoinedLeft(left_items, 1, right_items, how, uniq_right)
    \o (IF how \in {"right", "outer", "full"}
        THEN UnmatchedRight(left_items, right_items, uniq_right)
        ELSE <<>>)

\* The join that yields nothing when the right stream is empty.
MapSideJoinEmptyOnEmptyRight(left_items, right_items, how, right_is_uniq) ==
    IF right_items /= <<>>
    THEN AlgoMapSideJoin(left_items, right_items, how, right_is_uniq)
    ELSE <<>>

\* The join that returns the left items for an empty right stream, whatever
\* the kind of the join.
MapSideJoinLeftOnEmptyRight(left_items, right_items, how, right_is_uniq) ==
    IF right_items /= <<>>
    THEN AlgoMapSideJoin(left_items, right_items, how, right_is_uniq)
    ELSE left_items

\* ColumnarMixin.map_side_join(right, key, how, right_is_uniq): the items of
\* the stream that is returned.
MapSideJoin(left_items, right_items, how, right_is_uniq) ==
    IF right_items /= <<>>
    THEN AlgoMapSideJoin(left_items, right_items, how, right_is_uniq)
    ELSE IF how \in {"left", "outer", "full"}
    THEN left_items
    ELSE <<>>

NotJoined == [done |-> FALSE, items |-> <<>>]

JoinInit ==
    /\ joinCase \in [left : {LeftItems(ids) : ids \in SeqsUpTo(JoinIds, MaxJoinLen)},
                      right : {RightItems(ids) : ids \in SeqsUpTo(JoinIds, MaxJoinLen)},
                      right_is_uniq : BOOLEAN]
    /\ joinDone = [how \in Hows |-> NotJoined]
    /\ QueryIdle /\ SortIdle /\ GroupIdle /\ StructIdle /\ ExprIdle /\ EvalIdle /\ ValidIdle /\ CountIdle /\ FileIdle /\ NameIdle /\ TypeIdle /\ FreshIdle /\ HandleIdle /\ ItemIdle

DoMapSideJoin ==
    \E how \in Hows :
        /\ joinDone' = [joinDone EXCEPT ![how] =
               [done |-> TRUE,
                items |-> MapSideJoin(joinCase.left, joinCase.right, how,
                                      joinCase.right_is_uniq)]]
        /\ UNCHANGED <<joinCase, varsQuery, varsSort, varsGroup, varsStruct, varsExpr, varsEval, varsValid, varsCount, varsFile, varsName, varsType, varsFresh, varsHandle, varsItem>>

JoinNext == DoMapSideJoin

SpecJoin == JoinInit /\ [][JoinNext]_varsJoin

\* ---------------------------------------------------------- join: claims

\* How many items of the join are made of the left item.
TimesIn(items, first) ==
    Cardinality({n \in 1..Len(items) :
                    items[n]["id"] = first["id"] /\ items[n]["a"] = first["a"]})

InnerNotMoreThanLeft ==
    (joinDone["left"].done /\ joinDone["inner"].done)
    => Len(joinDone["left"].items) >= Len(joinDone["inner"].items)

\* No two right items have the same key.
RightKeysDiffer ==
    \A i, j \in 1..Len(joinCase.right) :
        JoinKey(joinCase.right[i]) = JoinKey(joinCase.right[j]) => i = j

C12_EmptyRightSide ==
    joinCase.right = <<>> =>
        \A how \in Hows : joinDone[how].done =>
            joinDone[how].items
            = IF how \in {"left", "outer", "full"} THEN joinCase.left ELSE <<>>

\* Left items were joined to an empty right stream, both as a join that
\* keeps them and as a join that does not.
C12_Witness ==
    /\ joinCase.right = <<>> /\ Len(joinCase.left) = 2
    /\ joinDone["full"].done /\ joinDone["full"].items = joinCase.left
    /\ joinDone["right"].done /\ joinDone["right"].items = <<>>

\* ------------------------------------------------------- struct: machine

FieldNames == {"a", "b"}
FieldTypes == {"int", "str"}

\* A field as it is declared, and the structs: lists of fields.  The empty
\* list stands for no struct (None, a source that is not connected).
Field(name, type) == [name |-> name, type |-> type, valid |-> TRUE, kind |-> "declared"]
Structs == SeqsUpTo({Field(n, t) : n \in FieldNames, t \in FieldTypes}, MaxFields)

\* How many fields of the struct have the name.
CountOf(st, name) == Cardinality({i \in 1..Len(st) : st[i].name = name})

\* FlatStruct.validate_about(expected): every field of this struct is looked
\* up by name in the expected one and is matching, of another type, in this
\* struct only, or duplicated in either side; the fields that only the
\* expected struct has follow.  Only the matching fields are valid.
ValidateAbout(self, expected) ==
    LET Expected(name) == expected[CHOOSE i \in 1..Len(expected) : expected[i].name = name]
        KindOf(f) ==
            IF CountOf(self, f.name) > 1 \/ CountOf(expected, f.name) > 1 THEN "duplicated"
            ELSE IF CountOf(expected, f.name) = 0 THEN "this_only"
            ELSE IF Expected(f.name).type = f.type THEN "matching"
            ELSE "type_mismatch"
        Validated(f, kind) ==
            [name |-> f.name, type |-> f.type, valid |-> kind = "matching", kind |-> kind]
        IsOtherOnly(f) == CountOf(self, f.name) = 0
        others == SelectSeq(expected, IsOtherOnly)
    IN  [i \in 1..Len(self) |-> Validated(self[i], KindOf(self[i]))]
        \o [i \in 1..Len(others) |->
               Validated(others[i], IF CountOf(expected, others[i].name) > 1
                                    THEN "duplicated" ELSE "other_only")]

\* The columns that are valid, instead of the invalid ones.
GetValidColumns(st) ==
    LET IsValid(f) == f.valid
    IN  SelectSeq(st, IsValid)

\* ValidateMixin.get_invalid_columns()
GetInvalidColumns(st) ==
    LET IsInvalid(f) == ~f.valid
    IN  SelectSeq(st, IsInvalid)

\* ValidateMixin.get_invalid_fields_count()
GetInvalidFieldsCount(st) == Len(GetInvalidColumns(st))

\* ValidateMixin.is_valid_struct()
IsValidStruct(st) == GetInvalidColumns(st) = <<>>

\* The validation that raises when a field of the source is not valid.
ValidateFieldsRaisingOnMismatch(case, current, initial, skip_disconnected) ==
    LET expected_struct == IF initial
                           THEN (IF case.initial /= <<>> THEN case.initial ELSE case.source)
                           ELSE current
        actual_struct == case.source
        validated == ValidateAbout(actual_struct, expected_struct)
        call == [op |-> "validate_fields", initial |-> initial,
                 skip_disconnected |-> skip_disconnected,
                 expected |-> expected_struct, actual |-> actual_struct, raised |-> ""]
    IN  IF actual_struct /= <<>> /\ GetInvalidColumns(validated) = <<>>
        THEN [struct |-> validated, done |-> call]
        ELSE [struct |-> current, done |-> [call EXCEPT !.raised = "ValueError"]]

\* ValidateMixin.validate_fields(initial, skip_disconnected): the struct the
\* object holds after the call, and what the call did.
ValidateFields(case, current, initial, skip_disconnected) ==
    LET expected_struct == IF initial
                           THEN (IF case.initial /= <<>> THEN case.initial ELSE case.source)
                           ELSE current
        actual_struct == case.source
        call == [op |-> "validate_fields", initial |-> initial,
                 skip_disconnected |-> skip_disconnected,
                 expected |-> expected_struct, actual |-> actual_struct, raised |-> ""]
    IN  IF actual_struct /= <<>>
        THEN [struct |-> ValidateAbout(actual_struct, expected_struct), done |-> call]
        ELSE [struct |-> current,
              done |-> IF skip_disconnected THEN call
                       ELSE [call EXCEPT !.raised = "ValueError"]]

\* ValidateMixin.get_validation_message(skip_disconnected): the struct the
\* object holds after the call, and what the call did.
GetValidationMessage(case, current, skip_disconnected) ==
    LET call == [op |-> "get_validation_message", skip_disconnected |-> skip_disconnected,
                 accessible |-> case.accessible, actual |-> case.source,
                 raised |-> "", message |-> ""]
        validated == ValidateFields(case, current, TRUE, FALSE)
    IN  IF case.accessible
        THEN [struct |-> validated.struct,
              done |-> IF validated.done.raised /= ""
                       THEN [call EXCEPT !.raised = validated.done.raised]
                       ELSE IF IsValidStruct(validated.struct)
                       THEN [call EXCEPT !.message = "valid"]
                       ELSE [call EXCEPT !.message = "[INVALID]"]]
        ELSE [struct |-> current,
              done |-> IF skip_disconnected
                       THEN [call EXCEPT !.message = "[DISCONNECTED]"]
                       ELSE [call EXCEPT !.raised = "ValueError"]]

StructInit ==
    /\ structCase \in {c \in [source : Structs, initial : Structs, accessible : BOOLEAN] :
                            ~c.accessible => c.source = <<>>}
    /\ struct = structCase.initial
    /\ structDone = Idle
    /\ QueryIdle /\ SortIdle /\ GroupIdle /\ JoinIdle /\ ExprIdle /\ EvalIdle /\ ValidIdle /\ CountIdle /\ FileIdle /\ NameIdle /\ TypeIdle /\ FreshIdle /\ HandleIdle /\ ItemIdle

DoValidateFields ==
    \E initial \in BOOLEAN, skip_disconnected \in BOOLEAN :
        LET r == ValidateFields(structCase, struct, initial, skip_disconnected)
        IN  /\ struct' = r.struct
            /\ structDone' = r.done
            /\ UNCHANGED <<structCase, varsQuery, varsSort, varsGroup, varsJoin, varsExpr, varsEval, varsValid, varsCount, varsFile, varsName, varsType, varsFresh, varsHandle, varsItem>>

DoGetValidationMessage ==
    \E skip_disconnected \in BOOLEAN :
        LET r == GetValidationMessage(structCase, struct, skip_disconnected)
        IN  /\ struct' = r.struct
            /\ structDone' = r.done
            /\ UNCHANGED <<structCase, varsQuery, varsSort, varsGroup, varsJoin, varsExpr, varsEval, varsValid, varsCount, varsFile, varsName, varsType, varsFresh, varsHandle, varsItem>>

StructNext ==
    \/ DoValidateFields
    \/ DoGetValidationMessage

SpecStruct == StructInit /\ [][StructNext]_varsStruct

\* -------------------------------------------------------- struct: claims

\* A struct was validated about itself: the struct of the source about the
\* struct it is expected to have, which is the same.
ValidatedAboutItself ==
    /\ structDone.op = "validate_fields" /\ structDone.raised = ""
    /\ structDone.actual /= <<>>
    /\ structDone.expected = structDone.actual

\* The validated struct has the fields of the struct, all of them matching:
\* none invalid, none of this struct only, none of the other struct only.
Reflexive(validated, st) ==
    /\ Len(validated) = Len(st)
    /\ \A i \in 1..Len(validated) :
          /\ validated[i].valid
          /\ validated[i].kind = "matching"
          /\ validated[i].name = st[i].name /\ validated[i].type = st[i].type

NamesDiffer(st) == \A i, j \in 1..Len(st) : st[i].name = st[j].name => i = j

FieldsOf(st) == {<<st[i].name, st[i].type>> : i \in 1..Len(st)}

\* The two structs do not match: a field is in one of them only, or is of
\* another type in the other, or a name is of two fields of a struct.
StructsMismatch(actual, expected) ==
    \/ FieldsOf(actual) /= FieldsOf(expected)
    \/ ~NamesDiffer(actual)
    \/ ~NamesDiffer(expected)

\* The source is connected, and its struct was validated.
ValidatedConnected ==
    structDone.op = "validate_fields" /\ structDone.actual /= <<>>

\* C21: the validation of a struct never raises for a mismatch (a field of
\* another type, of this struct only, of the other struct only, or
\* duplicated): the object holds the validated struct, the mismatch shows
\* in is_valid_struct() and get_invalid_columns() only, and
\* is_valid_struct() is true exactly when get_invalid_columns() yields no
\* field.
C21_MismatchNeverRaises ==
    ValidatedConnected =>
        /\ structDone.raised = ""
        /\ struct = ValidateAbout(structDone.actual, structDone.expected)
        /\ StructsMismatch(structDone.actual, structDone.expected) <=> ~IsValidStruct(struct)
        /\ IsValidStruct(struct) <=> GetInvalidFieldsCount(struct) = 0
        /\ IsValidStruct(struct) <=> \A i \in 1..Len(struct) : struct[i].valid

\* A source of a field of another type than the declared one and of a field
\* that is not declared was validated: nothing was raised, the struct is
\* not valid.
C21_Witness ==
    /\ ValidatedConnected /\ structDone.raised = ""
    /\ \E i \in 1..Len(struct) : struct[i].kind = "type_mismatch"
    /\ \E i \in 1..Len(struct) : struct[i].kind = "this_only"
    /\ ~IsValidStruct(struct)

\* The source of the object cannot be reached.
Unreachable == ~structCase.accessible

\* A validation of an unreachable source that is asked to raise, raises.
UnreachableRaisesIfNotSkipped ==
    (Unreachable /\ structDone.op /= "none" /\ ~structDone.skip_disconnected) =>
        structDone.raised = "ValueError"

\* C22: validate_fields and get_validation_message of a source that cannot
\* be reached fail with an error; they do not return a result of the
\* validation.
C22_UnreachableSourceFails ==
    (Unreachable /\ structDone.op \in {"validate_fields", "get_validation_message"}) =>
        structDone.raised /= ""

\* --------------------------------------------------- expressions: machine

ExprTargets == {"x", "y", "z"}

\* The descriptions of an expression: a function alone, a function with the
\* fields it takes, or the name of one field (an alias).
Descriptions ==
    {[kind |-> "callable", fields |-> <<>>]}
    \cup {[kind |-> "function", fields |-> <<f>>] : f \in ExprTargets}
    \cup {[kind |-> "function", fields |-> <<"x", "y">>],
          [kind |-> "function", fields |-> <<"x", "z">>],
          [kind |-> "function", fields |-> <<"y", "z">>]}
    \cup {[kind |-> "alias", fields |-> <<f>>] : f \in ExprTargets}

\* process_description(d): the inputs of the description
ProcessDescription(d) == d.fields

\* The steps: lists of expressions of different targets (they are keyword
\* arguments), in the order they are given.
RECURSIVE Steps(_)
Steps(n) ==
    IF n = 0 THEN {<<>>}
    ELSE LET shorter == Steps(n - 1)
             Taken(q) == {q[i].target : i \in 1..Len(q)}
         IN  shorter \cup UNION {
                 {Append(q, [target |-> t, description |-> d]) :
                     t \in ExprTargets \ Taken(q), d \in Descriptions} :
                 q \in {u \in shorter : Len(u) = n - 1}}

\* algo.topologically_sorted(nodes, edges, ignore_cycles, logger): the nodes
\* none of whose dependencies is unordered are ordered one by one; when
\* there is none, the graph has a cycle: it is an error, or with
\* ignore_cycles the first unordered node is taken, which breaks the cycle.
RECURSIVE AlgoTopologicallySorted(_, _, _, _, _)
AlgoTopologicallySorted(unordered, edges, ignore_cycles, ordered, broken) ==
    LET left == {unordered[i] : i \in 1..Len(unordered)}
        ready == {i \in 1..Len(unordered) : edges[unordered[i]] \cap left = {}}
        pick == IF ready /= {} THEN CHOOSE i \in ready : \A j \in ready : i <= j ELSE 1
        IsLeft(n) == n /= unordered[pick]
    IN  IF unordered = <<>>
        THEN [raised |-> "", order |-> ordered, broken |-> broken]
        ELSE IF ready = {} /\ ~ignore_cycles
        THEN [raised |-> "CyclicDependencyError", order |-> <<>>, broken |-> FALSE]
        ELSE AlgoTopologicallySorted(SelectSeq(unordered, IsLeft), edges, ignore_cycles,
                 Append(ordered, unordered[pick]), broken \/ ready = {})

\* The dependency sort that takes no expression to depend on another.
TopologicallySortedNoEdges(expressions, ignore_cycles, logger) ==
    [raised |-> "", order |-> [i \in 1..Len(expressions) |-> expressions[i].target],
     logged |-> FALSE]

\* selection.topologically_sorted(expressions, ignore_cycles, logger): the
\* targets in the order of the sort; a diagnostic can be logged only to a
\* logger.
TopologicallySorted(expressions, ignore_cycles, logger) ==
    LET keys == {expressions[i].target : i \in 1..Len(expressions)}
        unordered_fields == [i \in 1..Len(expressions) |-> expressions[i].target]
        Of(field) == expressions[CHOOSE i \in 1..Len(expressions) :
                                    expressions[i].target = field]
        Inputs(field) == ProcessDescription(Of(field).description)
        unresolved_dependencies ==
            [field \in keys |->
                {Inputs(field)[n] : n \in 1..Len(Inputs(field))} \cap (keys \ {field})]
        sorted == AlgoTopologicallySorted(unordered_fields, unresolved_dependencies,
                                          ignore_cycles, <<>>, FALSE)
    IN  [raised |-> sorted.raised, order |-> sorted.order,
         logged |-> sorted.broken /\ logger]

\* selection.flatten_descriptions(**expressions) with or without a logger
\* among the keyword arguments
FlattenDescriptions(expressions, logger) ==
    LET ignore_cycles == logger
    IN  TopologicallySorted(expressions, ignore_cycles, logger)

ExprCall(op, lenient, logger, sorted) ==
    [op |-> op, lenient |-> lenient, logger |-> logger, raised |-> sorted.raised,
     order |-> sorted.order, logged |-> sorted.logged]

ExprInit ==
    /\ exprCase \in Steps(MaxExprs)
    /\ exprDone = Idle
    /\ QueryIdle /\ SortIdle /\ GroupIdle /\ JoinIdle /\ StructIdle /\ EvalIdle /\ ValidIdle /\ CountIdle /\ FileIdle /\ NameIdle /\ TypeIdle /\ FreshIdle /\ HandleIdle /\ ItemIdle

ExprReturned(call) ==
    /\ exprDone' = call
    /\ UNCHANGED <<exprCase, varsQuery, varsSort, varsGroup, varsJoin, varsStruct, varsEval, varsValid, varsCount, varsFile, varsName, varsType, varsFresh, varsHandle, varsItem>>

DoTopologicallySorted ==
    \E ignore_cycles \in BOOLEAN, logger \in BOOLEAN :
        ExprReturned(ExprCall("topologically_sorted", ignore_cycles, logger,
                              TopologicallySorted(exprCase, ignore_cycles, logger)))

\* The caller of flatten_descriptions has no argument to ask for the lenient
\* mode with.
DoFlattenDescriptions ==
    \E logger \in BOOLEAN :
        ExprReturned(ExprCall("flatten_descriptions", FALSE, logger,
                              FlattenDescriptions(exprCase, logger)))

ExprNext ==
    \/ DoTopologicallySorted
    \/ DoFlattenDescriptions

SpecExpr == ExprInit /\ [][ExprNext]_varsExpr

\* ---------------------------------------------------- expressions: claims

\* The expression of target a takes the target of another expression, b,
\* as an input.
TakesFrom(a, b) ==
    /\ a /= b
    /\ \E i, j \in 1..Len(exprCase) :
          /\ exprCase[i].target = a /\ exprCase[j].target = b
          /\ \E n \in 1..Len(exprCase[i].description.fields) :
                exprCase[i].description.fields[n] = b

\* The targets that the expression of target a depends on, through any
\* number of expressions.
RECURSIVE ReachedFrom(_, _)
ReachedFrom(a, n) ==
    IF n = 0 THEN {a}
    ELSE LET before == ReachedFrom(a, n - 1)
         IN  before \cup {b \in ExprTargets : \E c \in before : TakesFrom(c, b)}

HasCycle ==
    \E a, b \in ExprTargets : TakesFrom(a, b) /\ a \in ReachedFrom(b, Len(exprCase))

PlaceIn(order, t) == CHOOSE i \in 1..Len(order) : order[i] = t

\* C13: for an acyclic set of named expressions, the order of the
\* dependency sort holds every expression exactly once and places every
\* expression after all the expressions whose targets it takes as inputs.
C13_ProducersBeforeConsumers ==
    (exprDone.op /= "none" /\ ~HasCycle)
    => /\ exprDone.raised = ""
       /\ Len(exprDone.order) = Len(exprCase)
       /\ \A i \in 1..Len(exprCase) :
             Cardinality({n \in 1..Len(exprDone.order) :
                             exprDone.order[n] = exprCase[i].target}) = 1
       /\ \A a, b \in ExprTargets : TakesFrom(a, b) =>
             PlaceIn(exprDone.order, b) < PlaceIn(exprDone.order, a)

\* Three expressions were given with every consumer before its producer
\* (x takes y, y takes z), and were sorted to z, y, x.
C13_Witness ==
    /\ exprDone.op = "flatten_descriptions" /\ exprDone.raised = ""
    /\ Len(exprCase) = 3 /\ exprCase[1].target = "x" /\ exprCase[2].target = "y"
    /\ TakesFrom("x", "y") /\ TakesFrom("y", "z") /\ ~HasCycle
    /\ exprDone.order = <<"z", "y", "x">>

\* C14: when the graph of the dependencies has a cycle, the dependency sort
\* fails with a CyclicDependencyError, or, only if the caller asked for the
\* lenient mode, breaks the cycle and logs a diagnostic: no cycle is
\* accepted without the error or a logged diagnostic.
C14_CycleFailsOrIsLogged ==
    (exprDone.op /= "none" /\ HasCycle)
    => \/ exprDone.raised = "CyclicDependencyError"
       \/ (exprDone.lenient /\ exprDone.raised = "" /\ exprDone.logged)

\* ---------------------------------------------------- evaluation: machine

\* The items are records of one field, a; the function of the description
\* raises the error of the case on the value 3 and returns the value else.
EvalValues == {1, 2, 3}
EvalErrors == {"TypeError", "ValueError", "ZeroDivisionError"}
FunctionRaises(v) == v = 3

\* The description: a function of the item (callable), a function with the
\* field it takes (function), or the name of the field (field).
EvalKinds == {"callable", "function", "field"}

Evaluated(value) == [raised |-> "", value |-> value, logged |-> FALSE]

\* safe_apply_function(function, fields, values, item, logger, skip_errors):
\* the except clause, TypeError or ValueError, names TypeError only.
SafeApplyFunction(error, v, logger, skip_errors) ==
    IF ~FunctionRaises(v) THEN Evaluated(v)
    ELSE IF error /= "TypeError" THEN [raised |-> error, value |-> Null, logged |-> FALSE]
    ELSE [raised |-> IF skip_errors THEN "" ELSE error, value |-> Null, logged |-> logger]

\* value_from_record(record, description, logger, skip_errors)
ValueFromRecord(case, v, logger, skip_errors) ==
    IF case.kind = "callable"
    THEN (IF FunctionRaises(v) THEN [raised |-> case.error, value |-> Null, logged |-> FALSE]
          ELSE Evaluated(v))
    ELSE IF case.kind = "function"
    THEN SafeApplyFunction(case.error, v, logger, skip_errors)
    ELSE Evaluated(v)

\* value_from_item(item, description, item_type, logger, skip_errors, default)
ValueFromItem(case, v, logger, skip_errors) ==
    IF case.kind = "callable"
    THEN (IF FunctionRaises(v) THEN [raised |-> case.error, value |-> Null, logged |-> FALSE]
          ELSE Evaluated(v))
    ELSE IF case.kind = "field"
    THEN Evaluated(v)
    ELSE SafeApplyFunction(case.error, v, logger, skip_errors)

EvalCall(op, logger, skip_errors, r) ==
    [op |-> op, logger |-> logger, skip_errors |-> skip_errors, raised |-> r.raised,
     value |-> r.value, logged |-> r.logged, out |-> <<>>]

\* RecordStream.sort(description): the key function is
\* partial(value_from_record, description), with no logger and the default
\* skip_errors=True; an error of a key is the error of the sort, and so is
\* the comparison of None to another key.
SortByEvaluatedKey(case) ==
    LET keys == [i \in 1..Len(case.items) |-> ValueFromRecord(case, case.items[i], FALSE, TRUE)]
        failed == {i \in 1..Len(keys) : keys[i].raised /= ""}
        first == CHOOSE i \in failed : \A j \in failed : i <= j
        none == {i \in 1..Len(keys) : keys[i].value = Null}
        order == MemorySort([i \in 1..Len(keys) |-> [a |-> keys[i].value, b |-> i]],
                            PairKey, FALSE)
    IN  IF failed /= {}
        THEN [op |-> "sort", logger |-> FALSE, skip_errors |-> TRUE,
              raised |-> keys[first].raised, value |-> Null, logged |-> FALSE, out |-> <<>>]
        ELSE IF none /= {} /\ Len(keys) > 1
        THEN [op |-> "sort", logger |-> FALSE, skip_errors |-> TRUE,
              raised |-> "TypeError", value |-> Null, logged |-> FALSE, out |-> <<>>]
        ELSE [op |-> "sort", logger |-> FALSE, skip_errors |-> TRUE, raised |-> "",
              value |-> Null, logged |-> FALSE,
              out |-> [n \in 1..Len(order) |-> case.items[order[n]["b"]]]]

EvalInit ==
    /\ evalCase \in [kind : EvalKinds, error : EvalErrors,
                      items : SeqsUpTo(EvalValues, MaxEvalLen) \ {<<>>}]
    /\ evalDone = Idle
    /\ QueryIdle /\ SortIdle /\ GroupIdle /\ JoinIdle /\ StructIdle /\ ExprIdle /\ ValidIdle /\ CountIdle /\ FileIdle /\ NameIdle /\ TypeIdle /\ FreshIdle /\ HandleIdle /\ ItemIdle

EvalReturned(call) ==
    /\ evalDone' = call
    /\ UNCHANGED <<evalCase, varsQuery, varsSort, varsGroup, varsJoin, varsStruct, varsExpr, varsValid, varsCount, varsFile, varsName, varsType, varsFresh, varsHandle, varsItem>>

DoSafeApplyFunction ==
    \E logger \in BOOLEAN, skip_errors \in BOOLEAN :
        /\ evalCase.kind = "function"
        /\ EvalReturned(EvalCall("safe_apply_function", logger, skip_errors,
               SafeApplyFunction(evalCase.error, evalCase.items[1], logger, skip_errors)))

DoValueFromRecord ==
    \E logger \in BOOLEAN, skip_errors \in BOOLEAN :
        EvalReturned(EvalCall("value_from_record", logger, skip_errors,
            ValueFromRecord(evalCase, evalCase.items[1], logger, skip_errors)))

DoValueFromItem ==
    \E logger \in BOOLEAN, skip_errors \in BOOLEAN :
        EvalReturned(EvalCall("value_from_item", logger, skip_errors,
            ValueFromItem(evalCase, evalCase.items[1], logger, skip_errors)))

DoSortByEvaluatedKey == EvalReturned(SortByEvaluatedKey(evalCase))

EvalNext ==
    \/ DoSafeApplyFunction
    \/ DoValueFromRecord
    \/ DoValueFromItem
    \/ DoSortByEvaluatedKey

SpecEval == EvalInit /\ [][EvalNext]_varsEval

\* ----------------------------------------------------- evaluation: claims

\* The function of the expression raised on the item it was evaluated on.
RaisedOnItem ==
    /\ evalDone.op \in {"safe_apply_function", "value_from_record", "value_from_item"}
    /\ evalCase.kind /= "field"
    /\ FunctionRaises(evalCase.items[1])

\* C15: when the evaluation of an expression on an item raises an error of
\* whatever kind, then with skip_errors set the error is logged, the target
\* is left without a value and the call returns; with skip_errors unset
\* the error goes to the caller.
C15_SkipErrorsDecides ==
    RaisedOnItem =>
        IF evalDone.skip_errors
        THEN evalDone.raised = "" /\ evalDone.logged /\ evalDone.value = Null
        ELSE evalDone.raised = evalCase.error

\* C16: if the key function raises on an item while sort() computes the
\* keys, the caller gets the error: sort() does not return with the item
\* ordered under another key or dropped.
C16_KeyErrorSurfaces ==
    (/\ evalDone.op = "sort" /\ evalCase.kind /= "field"
     /\ \E i \in 1..Len(evalCase.items) : FunctionRaises(evalCase.items[i]))
    => evalDone.raised /= ""

\* ---------------------------------------------------- validation: machine

\* The items: a row of two values (a pair), a row of three, a record.
ItemShapes == {"pair", "row", "record"}

\* is_valid_item(item): the item is of the item type of the class
IsValidItem(tag, item) ==
    IF tag = "Row" THEN item \in {"pair", "row"} ELSE item = "record"

\* is_pair(row)
IsPair(row) == row = "pair"

\* What a generator did until it ended or raised: the items it yielded, the
\* items a diagnostic was logged of.
Validated(op, skip_errors, raised, yielded, logged) ==
    [op |-> op, skip_errors |-> skip_errors, raised |-> raised,
     yielded |-> yielded, logged |-> logged]

\* ColumnarMixin.get_validated(items, skip_errors, context), from the item i
\* on; context tells whether a context is given.
RECURSIVE GetValidated(_, _, _, _, _, _, _)
GetValidated(tag, items, i, skip_errors, context, yielded, logged) ==
    IF i > Len(items)
    THEN Validated("get_validated", skip_errors, "", yielded, logged)
    ELSE IF IsValidItem(tag, items[i])
    THEN GetValidated(tag, items, i + 1, skip_errors, context,
                      Append(yielded, items[i]), logged)
    ELSE IF skip_errors
    THEN GetValidated(tag, items, i + 1, skip_errors, context, yielded,
                      IF context THEN Append(logged, items[i]) ELSE logged)
    ELSE Validated("get_validated", skip_errors, "TypeError", yielded, logged)

\* check_pairs(pairs, skip_errors), from the item i on
RECURSIVE CheckPairs(_, _, _, _)
CheckPairs(pairs, i, skip_errors, yielded) ==
    IF i > Len(pairs)
    THEN Validated("check_pairs", skip_errors, "", yielded, <<>>)
    ELSE IF IsPair(pairs[i])
    THEN CheckPairs(pairs, i + 1, skip_errors, Append(yielded, pairs[i]))
    ELSE IF skip_errors
    THEN CheckPairs(pairs, i + 1, skip_errors, yielded)
    ELSE Validated("check_pairs", skip_errors, "TypeError", yielded, <<>>)

ValidInit ==
    /\ validCase \in [items : SeqsUpTo(ItemShapes, MaxValidLen), tag : {"Row", "Record"}]
    /\ validDone = Idle
    /\ QueryIdle /\ SortIdle /\ GroupIdle /\ JoinIdle /\ StructIdle /\ ExprIdle /\ EvalIdle /\ CountIdle /\ FileIdle /\ NameIdle /\ TypeIdle /\ FreshIdle /\ HandleIdle /\ ItemIdle

ValidReturned(call) ==
    /\ validDone' = call
    /\ UNCHANGED <<validCase, varsQuery, varsSort, varsGroup, varsJoin, varsStruct,
                   varsExpr, varsEval, varsCount, varsFile, varsName,
                   varsType, varsFresh, varsHandle, varsItem>>

DoGetValidated ==
    \E skip_errors \in BOOLEAN, context \in BOOLEAN :
        ValidReturned(GetValidated(validCase.tag, validCase.items, 1, skip_errors,
                                   context, <<>>, <<>>))

DoCheckPairs ==
    \E skip_errors \in BOOLEAN :
        ValidReturned(CheckPairs(validCase.items, 1, skip_errors, <<>>))

ValidNext ==
    \/ DoGetValidated
    \/ DoCheckPairs

SpecValid == ValidInit /\ [][ValidNext]_varsValid

\* ----------------------------------------------------- validation: claims

\* The item conforms to the item type the validation is made for.
Conforms(item) ==
    IF validDone.op = "check_pairs" THEN item = "pair"
    ELSE IF validCase.tag = "Row" THEN item \in {"pair", "row"}
    ELSE item = "record"

NonConforming == SelectSeq(validCase.items, LAMBDA item : ~Conforms(item))

\* No item that does not conform is yielded.
OnlyConformingYielded ==
    validDone.op /= "none" =>
        \A n \in 1..Len(validDone.yielded) : Conforms(validDone.yielded[n])

\* C17: every item a validated stream yields conforms to the item type of
\* the stream; an item that does not is dropped and a diagnostic of it is
\* logged when skip_errors is set, makes the validation fail when
\* skip_errors is unset, and is never yielded.
C17_NonConformingDroppedAndLogged ==
    /\ OnlyConformingYielded
    /\ (validDone.op /= "none" /\ NonConforming /= <<>>) =>
         IF validDone.skip_errors
         THEN /\ validDone.raised = ""
              /\ validDone.yielded = SelectSeq(validCase.items, Conforms)
              /\ validDone.logged = NonConforming
         ELSE validDone.raised = "TypeError"

\* -------------------------------------------------------- counts: machine

\* The count that is not known (None).
Unknown == -1

\* A stream as it is built of its items with a count and a less_than.
Stream(items, count, less_than) ==
    [items |-> items, count |-> count, less_than |-> less_than]

\* The streams an operation is called on: a stream in memory has the exact
\* count; a stream that is iterated once has the count its source reported
\* or none; less_than, where there is one, is not less than the number of
\* the items.
CountedStreams ==
    {[items |-> LeftItems(ids), in_memory |-> m, count |-> c, less_than |-> l] :
        ids \in SeqsUpTo(JoinIds, MaxCountLen), m \in BOOLEAN,
        c \in -1..MaxCountLen, l \in -1..(MaxCountLen + 1)} 

IsCounted(s) ==
    /\ s.count \in (IF s.in_memory THEN {} ELSE {Unknown}) \cup {Len(s.items)}
    /\ s.less_than \in {Unknown, Len(s.items)}
                        \cup (IF s.in_memory THEN {} ELSE {Len(s.items) + 1})

\* _get_filtered_items of filter(id=value): the items that have the value
FilteredItems(items, value) == SelectSeq(items, LAMBDA r : r["id"] = value)

\* RecordStream.filter(id=value)
RecordFilter(self, value) ==
    LET filtered_items == FilteredItems(self.items, value)
    IN  IF self.in_memory
        THEN Stream(filtered_items, Len(filtered_items), Len(filtered_items))
        ELSE Stream(filtered_items, Unknown, self.less_than)

\* RecordStream.get_rows(columns=('id', 'a'), add_title_row)
GetRows(items, add_title_row) ==
    (IF add_title_row THEN << <<"id", "a">> >> ELSE <<>>)
    \o [i \in 1..Len(items) |-> <<items[i]["id"], items[i]["a"]>>]

\* if count: count += 1 (None and 0 are left as they are)
PlusTitleRow(count) == IF count /= Unknown /\ count /= 0 THEN count + 1 ELSE count

\* RecordStream.to_row_stream('id', 'a', add_title_row=add_title_row)
ToRowStream(self, add_title_row) ==
    LET count == IF add_title_row THEN PlusTitleRow(self.count) ELSE self.count
        less_than == IF add_title_row THEN PlusTitleRow(self.less_than) ELSE self.less_than
    IN  Stream(GetRows(self.items, add_title_row), count, less_than)

\* ColumnarMixin.map_side_join(right, 'id', how, right_is_uniq, inplace):
\* in place the joined items are set with the count the stream had; the
\* new stream of the joined items is built with no count given, and has the
\* exact count if the items are a list.
CountedMapSideJoin(self, right_items, how, right_is_uniq, inplace) ==
    LET joined_items == MapSideJoin(self.items, right_items, how, right_is_uniq)
    IN  IF inplace
        THEN Stream(joined_items, self.count, self.less_than)
        ELSE IF self.in_memory
        THEN Stream(joined_items, Len(joined_items), Len(joined_items))
        ELSE Stream(joined_items, Unknown, Unknown)

CountInit ==
    /\ countCase \in {s \in CountedStreams : IsCounted(s)}
    /\ countDone = Idle
    /\ QueryIdle /\ SortIdle /\ GroupIdle /\ JoinIdle /\ StructIdle /\ ExprIdle /\ EvalIdle /\ FileIdle /\ NameIdle /\ TypeIdle /\ FreshIdle /\ HandleIdle /\ ItemIdle
    /\ ValidIdle

CountReturned(op, stream) ==
    /\ countDone' = [op |-> op, stream |-> stream]
    /\ UNCHANGED <<countCase, varsQuery, varsSort, varsGroup, varsJoin, varsStruct,
                   varsExpr, varsEval, varsValid, varsFile, varsName,
                   varsType, varsFresh, varsHandle, varsItem>>

DoRecordFilter ==
    \E value \in JoinIds : CountReturned("filter", RecordFilter(countCase, value))

DoToRowStream ==
    \E add_title_row \in BOOLEAN :
        CountReturned("to_row_stream", ToRowStream(countCase, add_title_row))

DoCountedMapSideJoin ==
    \E ids \in SeqsUpTo(JoinIds, MaxCountLen), how \in Hows,
       right_is_uniq \in BOOLEAN, inplace \in BOOLEAN :
        CountReturned("map_side_join",
                      CountedMapSideJoin(countCase, RightItems(ids), how,
                                         right_is_uniq, inplace))

CountNext ==
    \/ DoRecordFilter
    \/ DoToRowStream
    \/ DoCountedMapSideJoin

SpecCount == CountInit /\ [][CountNext]_varsCount

\* --------------------------------------------------------- counts: claims

\* The count of the stream, if it has one, is the number of its items, and
\* its less_than, if it has one, is not less than the number of its items.
CountIsRight(stream) ==
    /\ stream.count /= Unknown => stream.count = Len(stream.items)
    /\ stream.less_than /= Unknown => stream.less_than >= Len(stream.items)

\* The stream that filter() produces has the right count.
FilteredCountIsRight ==
    countDone.op = "filter" => CountIsRight(countDone.stream)

\* C18: a stream that filter(), to_row_stream() or map_side_join() produces
\* has, if it has an exact count, the count of the items it yields, and, if
\* it has a less_than, a less_than that is not less than the number of the
\* items it yields.
C18_CountsAreRight ==
    countDone.op /= "none" => CountIsRight(countDone.stream)

\* --------------------------------------------------- file handles: machine

\* A line is read, decoded and written well, or an error is raised on it.
LineKinds == {"ok", "bad"}

\* The generator: the operation that made it, whether the file handle it
\* reads or writes is open, the lines it yielded, and where it stands:
\* created, yielded (suspended at the yield), exhausted, raised, closed.
Generator(op, opened, n, status) ==
    [op |-> op, opened |-> opened, n |-> n, status |-> status]

\* LocalFile.get_lines(count): the file is opened, the generator
\* get_next_lines(count, close=True) is made and not started.
GetLines == Generator("get_lines", TRUE, 0, "created")

\* LocalFile.get_next_lines(count, close=True), from one next() of the
\* consumer to the yield, the end or the error; count 0 is no count.
GetNextLines(lines, count, run) ==
    IF run.status = "yielded" /\ count > 0 /\ run.n = count
    THEN Generator(run.op, FALSE, run.n, "exhausted")
    ELSE IF run.n = Len(lines)
    THEN Generator(run.op, FALSE, run.n, "exhausted")
    ELSE IF lines[run.n + 1] = "bad"
    THEN Generator(run.op, run.opened, run.n, "raised")
    ELSE Generator(run.op, run.opened, run.n + 1, "yielded")

\* LocalFile.close()
Close(run) == Generator(run.op, FALSE, run.n, "closed")

\* LineStream.lazy_save(filename): the file is opened for writing, the
\* generator write_and_yield is made and not started.
LazySave == Generator("lazy_save", TRUE, 0, "created")

\* write_and_yield(fh, lines), from one next() of the consumer to the yield,
\* the end or the error.
WriteAndYield(lines, run) ==
    IF run.n = Len(lines)
    THEN Generator(run.op, FALSE, run.n, "exhausted")
    ELSE IF lines[run.n + 1] = "bad"
    THEN Generator(run.op, run.opened, run.n, "raised")
    ELSE Generator(run.op, run.opened, run.n + 1, "yielded")

FileInit ==
    /\ fileCase \in [lines : SeqsUpTo(LineKinds, MaxLines), count : 0..MaxLines]
    /\ fileRun = Idle
    /\ QueryIdle /\ SortIdle /\ GroupIdle /\ JoinIdle /\ StructIdle /\ ExprIdle /\ EvalIdle /\ TypeIdle /\ FreshIdle /\ HandleIdle /\ ItemIdle
    /\ ValidIdle /\ CountIdle /\ NameIdle

FileStep(run) ==
    /\ fileRun' = run
    /\ UNCHANGED <<fileCase, varsQuery, varsSort, varsGroup, varsJoin, varsStruct,
                   varsExpr, varsEval, varsValid, varsCount, varsName,
                   varsType, varsFresh, varsHandle, varsItem>>

Running == fileRun.op /= "none" /\ fileRun.status \in {"created", "yielded"}

DoGetLines ==
    /\ fileRun.op = "none"
    /\ FileStep(GetLines)

DoLazySave ==
    /\ fileRun.op = "none"
    /\ FileStep(LazySave)

DoGetNextLines ==
    /\ Running /\ fileRun.op = "get_lines"
    /\ FileStep(GetNextLines(fileCase.lines, fileCase.count, fileRun))

DoWriteAndYield ==
    /\ Running /\ fileRun.op = "lazy_save"
    /\ FileStep(WriteAndYield(fileCase.lines, fileRun))

DoClose ==
    /\ fileRun.op = "get_lines" /\ fileRun.opened
    /\ FileStep(Close(fileRun))

FileNext ==
    \/ DoGetLines
    \/ DoLazySave
    \/ DoGetNextLines
    \/ DoWriteAndYield
    \/ DoClose

SpecFile == FileInit /\ [][FileNext]_varsFile

\* ---------------------------------------------------- file handles: claims

\* The generator has ended: its lines are exhausted, or an error went
\* through it, or the file was closed.
Exited == fileRun.op /= "none" /\ fileRun.status \in {"exhausted", "raised", "closed"}

\* The file handle is closed when the lines are exhausted or close() is called.
ClosedWhenExhaustedOrClosed ==
    (fileRun.op /= "none" /\ fileRun.status \in {"exhausted", "closed"}) => ~fileRun.opened

\* C19: a file handle opened for reading or for lazy writing is closed when
\* its lines are exhausted, when close() is called, or when an error goes
\* through the generator that owns it: no way out of the generator leaves
\* the handle open.
C19_HandleClosedOnEveryExit ==
    Exited => ~fileRun.opened

\* ----------------------------------------------------- temp names: machine

Pipelines == {1, 2}

\* generate_name(): the time of the call, to the second, and the value of
\* randint, formatted as '{}_{:03}'.  The name is held as the pair of its
\* two parts: the time part has a fixed width, so two names are the same
\* text exactly when both parts are the same.
GenerateName(now, random) == [cur_time |-> now, random |-> random]

NameInit ==
    /\ clock = 0
    /\ names = <<>>
    /\ QueryIdle /\ SortIdle /\ GroupIdle /\ JoinIdle /\ StructIdle /\ ExprIdle /\ EvalIdle /\ TypeIdle /\ FreshIdle /\ HandleIdle /\ ItemIdle
    /\ ValidIdle /\ CountIdle /\ FileIdle

\* A pipeline generates a name.
DoGenerateName ==
    /\ Len(names) < MaxNames
    /\ \E p \in Pipelines, random \in 0..MaxRandom :
           names' = Append(names, [by |-> p, name |-> GenerateName(clock, random)])
    /\ UNCHANGED <<clock, varsQuery, varsSort, varsGroup, varsJoin, varsStruct,
                   varsExpr, varsEval, varsValid, varsCount, varsFile,
                   varsType, varsFresh, varsHandle, varsItem>>

\* A second passes.
Tick ==
    /\ clock < MaxClock
    /\ clock' = clock + 1
    /\ UNCHANGED <<names, varsQuery, varsSort, varsGroup, varsJoin, varsStruct,
                   varsExpr, varsEval, varsValid, varsCount, varsFile,
                   varsType, varsFresh, varsHandle, varsItem>>

NameNext ==
    \/ DoGenerateName
    \/ Tick

SpecName == NameInit /\ [][NameNext]_varsName

\* ------------------------------------------------------ temp names: claims

\* C20: any two names generated in one process differ, however close in
\* time and by whichever pipelines they are generated.
C20_NamesAreDistinct ==
    \A i, j \in 1..Len(names) : i /= j => names[i].name /= names[j].name

\* ------------------------------------------------------- types: machine

\* The values of the canonical tags of ValueType.
ValueTypeValues ==
    {"any", "json", "str", "str16", "str64", "str256", "int", "float", "date", "bool",
     "sequence", "dict"}

\* What is given as a type: a tag of ValueType, a string, a Python type (by
\* its name) or None.
TagT(v) == [kind |-> "tag", v |-> v]
StrT(v) == [kind |-> "str", v |-> v]
PyT(v) == [kind |-> "type", v |-> v]
NoneT == [kind |-> "none", v |-> "None"]

\* ValueType._dict_dialect_types: the names of a tag in the dialects py, pg
\* and ch, in the order of the dict (the converters are no names of types).
DictDialectTypes(tag) ==
    CASE tag = "any" -> <<PyT("str"), StrT("text"), StrT("String")>>
      [] tag = "json" -> <<PyT("dict"), StrT("text"), StrT("String")>>
      [] tag = "str" -> <<PyT("str"), StrT("text"), StrT("String")>>
      [] tag = "str16" -> <<PyT("str"), StrT("varchar(16)"), StrT("FixedString(16)")>>
      [] tag = "str64" -> <<PyT("str"), StrT("varchar(64)"), StrT("FixedString(64)")>>
      [] tag = "str256" -> <<PyT("str"), StrT("varchar(256)"), StrT("FixedString(256)")>>
      [] tag = "int" -> <<PyT("int"), StrT("int"), StrT("Int32")>>
      [] tag = "float" -> <<PyT("float"), StrT("numeric"), StrT("Float32")>>
      [] tag = "date" -> <<PyT("str"), StrT("date"), StrT("Date")>>
      [] tag = "bool" -> <<PyT("bool"), StrT("bool"), StrT("UInt8")>>
      [] tag = "sequence" -> <<PyT("tuple"), StrT("text")>>
      [] OTHER -> <<PyT("dict"), StrT("text")>>

\* sorted(field_types_by_dialect.items(), key=lambda i: i[0], reverse=True):
\* the tags from the last to the first, in the order of their values.
SortedDialectTypes ==
    <<"str64", "str256", "str16", "str", "sequence", "json", "int", "float", "dict",
      "date", "bool", "any">>

\* str(field_type).split(DOT)[-1].lower() of the types that are given
StrFieldType(field_type) ==
    CASE field_type.kind = "tag" -> field_type.v
      [] field_type.kind = "none" -> "none"
      [] field_type.kind = "type" -> "<class '" \o field_type.v \o "'>"
      [] field_type.v = "INT" -> "int"
      [] field_type.v = "ValueType.Float" -> "float"
      [] field_type.v = "db.Text" -> "text"
      [] OTHER -> field_type.v

Resolved(tag) == [raised |-> "", type |-> TagT(tag)]
Unsupported == [raised |-> "ValueError", type |-> NoneT]

\* The first tag, from the position i of the sorted tags on, that has the
\* type as its name in a dialect ("": none has).
RECURSIVE ByDialect(_, _)
ByDialect(field_type, i) ==
    IF i > Len(SortedDialectTypes) THEN ""
    ELSE IF \E n \in 1..Len(DictDialectTypes(SortedDialectTypes[i])) :
                DictDialectTypes(SortedDialectTypes[i])[n] = field_type
    THEN SortedDialectTypes[i]
    ELSE ByDialect(field_type, i + 1)

\* get_canonic_type that fails for every type it cannot resolve.
GetCanonicTypeNeverDefault(given, ignore_missing, default) ==
    LET field_type == IF ignore_missing /\ given.kind = "none" THEN StrT(default) ELSE given
    IN  IF field_type.kind = "tag" THEN Resolved(field_type.v)
        ELSE IF field_type.kind = "str" /\ field_type.v \in ValueTypeValues
        THEN Resolved(field_type.v)
        ELSE IF ByDialect(field_type, 1) /= "" THEN Resolved(ByDialect(field_type, 1))
        ELSE Unsupported

\* ValueType.get_canonic_type(field_type, ignore_missing, default)
GetCanonicType(given, ignore_missing, default) ==
    LET field_type == IF ignore_missing /\ given.kind = "none" THEN StrT(default) ELSE given
        str_field_type == StrFieldType(field_type)
    IN  IF field_type.kind = "tag" THEN Resolved(field_type.v)
        ELSE IF field_type.kind = "str" /\ field_type.v \in ValueTypeValues
        THEN Resolved(field_type.v)
        ELSE IF field_type = StrT("integer") THEN Resolved("int")
        ELSE IF ByDialect(field_type, 1) /= "" THEN Resolved(ByDialect(field_type, 1))
        ELSE IF str_field_type \in ValueTypeValues THEN Resolved(str_field_type)
        ELSE IF ignore_missing THEN Resolved(default)
        ELSE Unsupported

\* The types that are given: every tag, every value of a tag, every name of
\* a type in a dialect, and types and strings that are none of these.
GivenTypes ==
    {TagT(v) : v \in ValueTypeValues} \cup {StrT(v) : v \in ValueTypeValues}
    \cup {DictDialectTypes(v)[n] : v \in ValueTypeValues, n \in 1..2}
    \cup {DictDialectTypes(v)[3] : v \in ValueTypeValues \ {"sequence", "dict"}}
    \cup {StrT("integer"), StrT("INT"), StrT("ValueType.Float"), StrT("db.Text"),
          StrT("uuid"), StrT(""), PyT("list"), PyT("object"), NoneT}

TypeInit ==
    /\ typeCase \in [given : GivenTypes, default : {"any", "str"}]
    /\ typeDone = Idle
    /\ QueryIdle /\ SortIdle /\ GroupIdle /\ JoinIdle /\ StructIdle /\ ExprIdle /\ EvalIdle /\ ValidIdle /\ CountIdle /\ FileIdle /\ NameIdle /\ FreshIdle /\ HandleIdle /\ ItemIdle

DoGetCanonicType ==
    \E ignore_missing \in BOOLEAN :
        /\ typeDone' = [op |-> "get_canonic_type", ignore_missing |-> ignore_missing,
                        out |-> GetCanonicType(typeCase.given, ignore_missing,
                                               typeCase.default)]
        /\ UNCHANGED <<typeCase, varsQuery, varsSort, varsGroup, varsJoin, varsStruct, varsExpr, varsEval, varsValid, varsCount, varsFile, varsName, varsFresh, varsHandle, varsItem>>

TypeNext == DoGetCanonicType

SpecType == TypeInit /\ [][TypeNext]_varsType

\* -------------------------------------------------------- types: claims

\* The tags that have the type as their name in a dialect.
TagsOfDialectName(given) ==
    {v \in ValueTypeValues :
        \E n \in 1..Len(DictDialectTypes(v)) : DictDialectTypes(v)[n] = given}

\* The given type is a tag, the value of a tag, the name of a type in a
\* storage dialect, or a bare type that a tag has.
IsTypeSpec(given) ==
    \/ given.kind = "tag"
    \/ given.kind = "str" /\ given.v \in ValueTypeValues
    \/ TagsOfDialectName(given) /= {}

\* The given type resolves to no tag: it is no type spec, and is neither
\* 'integer' nor, in lower case and after its last dot, the value of a tag.
CannotBeResolved(given) ==
    /\ ~IsTypeSpec(given)
    /\ given /= StrT("integer")
    /\ StrFieldType(given) \notin ValueTypeValues

\* C24: get_canonic_type returns one canonical tag for a tag (the tag
\* itself), for the value of a tag (that tag) and for the name of a type of
\* a dialect or a bare type (a tag that has that name); for a type that
\* cannot be resolved it returns the default tag if ignore_missing is set,
\* and fails with the error of an unsupported type otherwise.
C24_OneCanonicalTag ==
    typeDone.op = "get_canonic_type" =>
        LET given == typeCase.given
            out == typeDone.out
        IN  /\ IsTypeSpec(given) =>
                  /\ out.raised = ""
                  /\ out.type.kind = "tag" /\ out.type.v \in ValueTypeValues
                  /\ given.kind = "tag" => out.type = given
                  /\ (given.kind = "str" /\ given.v \in ValueTypeValues)
                        => out.type.v = given.v
                  /\ (given.kind /= "tag" /\ ~(given.kind = "str" /\ given.v \in ValueTypeValues))
                        => out.type.v \in TagsOfDialectName(given)
            /\ CannotBeResolved(given) =>
                  IF typeDone.ignore_missing
                  THEN out.raised = "" /\ out.type = TagT(typeCase.default)
                  ELSE out.raised = "ValueError"

\* The name 'text', which five tags have in a dialect, was resolved to one
\* of them.
C24_Witness ==
    /\ typeDone.op = "get_canonic_type"
    /\ typeCase.given = StrT("text")
    /\ Cardinality(TagsOfDialectName(typeCase.given)) = 5
    /\ typeDone.out.type.v \in TagsOfDialectName(typeCase.given)

\* A type that cannot be resolved was given with ignore_missing set, and
\* the default tag was returned.
C24_DefaultReturned ==
    /\ typeDone.op = "get_canonic_type" /\ typeDone.ignore_missing
    /\ CannotBeResolved(typeCase.given)
    /\ typeDone.out.type = TagT(typeCase.default)

\* --------------------------------------------------- freshness: machine

\* The file and the object of it: mtime and lines are of the file on disk,
\* prev (0: None) is the timestamp the object holds and count the count of
\* the lines it holds (Unknown: none).
FileObject(mtime, lines, prev, count) ==
    [mtime |-> mtime, lines |-> lines, prev |-> prev, count |-> count]

\* What a call on the object returned, and the object after it.
FileCall(f, result) == [file |-> f, result |-> result]

\* LocalFile.get_modification_timestamp(reset) of a file that exists
GetModificationTimestamp(f, reset) ==
    IF reset \/ f.prev = 0
    THEN FileCall([f EXCEPT !.prev = f.mtime], f.mtime)
    ELSE FileCall(f, f.mtime)

\* ActualizeMixin.is_actual()
IsActual(f) ==
    LET got == GetModificationTimestamp(f, TRUE)
    IN  FileCall(got.file, got.result = got.file.prev)

\* ActualizeMixin.is_outdated()
IsOutdated(f) ==
    LET actual == IsActual(f)
    IN  FileCall(actual.file, ~actual.result)

\* ActualizeMixin.get_count(force) of a file that exists; is_outdated() is
\* not called when force is set.
GetCount(f, force) ==
    LET outdated == IF force THEN FileCall(f, FALSE) ELSE IsOutdated(f)
        f1 == outdated.file
        must_recount == force \/ outdated.result \/ f1.count = Unknown
    IN  IF must_recount
        THEN FileCall([f1 EXCEPT !.count = f1.lines], f1.lines)
        ELSE FileCall(f1, f1.count)

\* ActualizeMixin.actualize(if_outdated)
Actualize(f, if_outdated) ==
    LET f1 == GetModificationTimestamp(f, TRUE).file
        outdated == IsOutdated(f1)
    IN  IF outdated.result \/ ~if_outdated
        THEN FileCall(GetCount(outdated.file, TRUE).file, TRUE)
        ELSE FileCall(outdated.file, FALSE)

\* ActualizeMixin.reset_modification_timestamp()
ResetModificationTimestamp(f) ==
    LET got == GetModificationTimestamp(f, FALSE)
    IN  FileCall([got.file EXCEPT !.prev = got.result], got.result)

\* ColumnarMixin.actualize(force) of a stream whose source is the file: the
\* result tells whether the source was actualized.
StreamActualize(f, force) ==
    IF ~force
    THEN LET actual == IsActual(f)
         IN  IF ~actual.result
             THEN FileCall(Actualize(actual.file, FALSE).file, TRUE)
             ELSE FileCall(actual.file, FALSE)
    ELSE FileCall(Actualize(f, FALSE).file, TRUE)

FreshInit ==
    /\ file \in {FileObject(1, n, 0, Unknown) : n \in 0..MaxLines}
    /\ freshDone = Idle
    /\ QueryIdle /\ SortIdle /\ GroupIdle /\ JoinIdle /\ StructIdle /\ ExprIdle /\ EvalIdle /\ ValidIdle /\ CountIdle /\ FileIdle /\ NameIdle /\ TypeIdle /\ HandleIdle /\ ItemIdle

\* A call on the object returned: keep the object, the result, and whether
\* the file had changed since the timestamp the object held was taken.
FreshReturned(op, call) ==
    /\ file' = call.file
    /\ freshDone' = [op |-> op, result |-> call.result,
                     changed |-> file.prev /= 0 /\ file.prev /= file.mtime]
    /\ UNCHANGED <<varsQuery, varsSort, varsGroup, varsJoin, varsStruct, varsExpr, varsEval, varsValid, varsCount, varsFile, varsName, varsType, varsHandle, varsItem>>

\* The file is written: its modification time and its lines change.
Modify ==
    /\ file.mtime < MaxTime
    /\ \E n \in 0..MaxLines :
           file' = [file EXCEPT !.mtime = file.mtime + 1, !.lines = n]
    /\ freshDone' = [op |-> "modify", result |-> FALSE, changed |-> FALSE]
    /\ UNCHANGED <<varsQuery, varsSort, varsGroup, varsJoin, varsStruct, varsExpr, varsEval, varsValid, varsCount, varsFile, varsName, varsType, varsHandle, varsItem>>

DoIsActual == FreshReturned("is_actual", IsActual(file))

DoIsOutdated == FreshReturned("is_outdated", IsOutdated(file))

DoGetCount ==
    \E force \in BOOLEAN : FreshReturned("get_count", GetCount(file, force))

DoActualize ==
    \E if_outdated \in BOOLEAN : FreshReturned("actualize", Actualize(file, if_outdated))

DoResetModificationTimestamp ==
    FreshReturned("reset_modification_timestamp", ResetModificationTimestamp(file))

DoStreamActualize ==
    \E force \in BOOLEAN :
        FreshReturned(IF force THEN "stream_actualize_force" ELSE "stream_actualize",
                      StreamActualize(file, force))

FreshNext ==
    \/ Modify
    \/ DoIsActual
    \/ DoIsOutdated
    \/ DoGetCount
    \/ DoActualize
    \/ DoResetModificationTimestamp
    \/ DoStreamActualize

SpecFresh == FreshInit /\ [][FreshNext]_varsFresh

\* ---------------------------------------------------- freshness: claims

\* C27: once the modification time of the file is another than the
\* timestamp the object holds, is_actual() returns false and is_outdated()
\* true, the actualize() of a stream actualizes the source, and get_count()
\* counts the lines again and does not return the count it held.
C27_ChangeIsSeen ==
    /\ (freshDone.op = "is_actual" /\ freshDone.changed) => ~freshDone.result
    /\ (freshDone.op = "is_outdated" /\ freshDone.changed) => freshDone.result
    /\ (freshDone.op = "stream_actualize" /\ freshDone.changed) => freshDone.result
    /\ (freshDone.op = "get_count" /\ freshDone.changed) => freshDone.result = file.lines

\* actualize() of the file with its default arguments, and the forced
\* actualize() of a stream, leave the object with the timestamp and the
\* count of the lines of the file.
ActualizeRecounts ==
    ((freshDone.op = "actualize" /\ freshDone.result)
     \/ freshDone.op = "stream_actualize_force")
    => file.prev = file.mtime /\ file.count = file.lines

\* ------------------------------------------------- open and close: machine
\* LocalFile.open, close, is_opened. handles[i] is the i-th file handle the
\* object opened: whether it is open, and the mode it was opened in;
\* fileholder is the handle the object holds, 0 for None (the state after
\* __init__).

Modes == {"r", "w"}
Encodings == {"", "utf8"}
Handle(opened, mode) == [opened |-> opened, mode |-> mode]

\* LocalFile.is_closed(): the closed attribute of the handle (the handles of
\* open() and of gzip.open() both have it).
IsClosed(hs, fh) == ~hs[fh].opened

\* LocalFile.is_opened()
IsOpened(hs, fh) == IF fh = 0 THEN FALSE ELSE ~IsClosed(hs, fh)

\* The handles, the handle held, what the call returned and what it raised.
HandleCall(hs, fh, result, raised) ==
    [handles |-> hs, fileholder |-> fh, result |-> result, raised |-> raised]

\* LocalFile.close()
CloseHandle(hs, fh) ==
    IF IsOpened(hs, fh)
    THEN HandleCall([hs EXCEPT ![fh].opened = FALSE], fh, 1, "")
    ELSE HandleCall(hs, fh, 0, "")

\* open() that opens another handle over the one that is open.
OpenNeverCloses(file_, hs, fh, mode, allow_reopen, fails) ==
    IF IsOpened(hs, fh) /\ ~allow_reopen
    THEN HandleCall(hs, fh, "", "AttributeError")
    ELSE IF fails
    THEN HandleCall(hs, fh, "", "OSError")
    ELSE HandleCall(Append(hs, Handle(TRUE, mode)), Len(hs) + 1, "self", "")

\* LocalFile.open(mode, allow_reopen); fails is whether open() or gz.open()
\* of the path raises. A file that is not gzipped and has no encoding is
\* opened in the mode 'r' whatever the mode given.
Open(file_, hs, fh, mode, allow_reopen, fails) ==
    LET is_opened == IsOpened(hs, fh)
        fileholder_ == IF file_.gzip THEN Handle(TRUE, mode)
                       ELSE IF file_.encoding /= "" THEN Handle(TRUE, mode)
                       ELSE Handle(TRUE, "r")
        closed == IF is_opened /\ allow_reopen
                  THEN CloseHandle(hs, fh).handles
                  ELSE hs
    IN  IF is_opened /\ ~allow_reopen
        THEN HandleCall(hs, fh, "", "AttributeError")
        ELSE IF fails
        THEN HandleCall(closed, fh, "", "OSError")
        ELSE HandleCall(Append(closed, fileholder_), Len(closed) + 1, "self", "")

HandleInit ==
    /\ handleCase \in [gzip : BOOLEAN, encoding : Encodings]
    /\ handles = <<>>
    /\ fileholder = 0
    /\ handleDone = Idle
    /\ QueryIdle /\ SortIdle /\ GroupIdle /\ JoinIdle /\ StructIdle /\ ExprIdle /\ EvalIdle /\ ValidIdle /\ CountIdle /\ FileIdle /\ NameIdle /\ TypeIdle /\ FreshIdle /\ ItemIdle

HandleReturned(op, allow_reopen, call) ==
    /\ handles' = call.handles
    /\ fileholder' = call.fileholder
    /\ handleDone' = [op |-> op, allow_reopen |-> allow_reopen,
                      result |-> call.result, raised |-> call.raised,
                      handles |-> handles, fileholder |-> fileholder]
    /\ UNCHANGED <<handleCase, varsQuery, varsSort, varsGroup, varsJoin, varsStruct, varsExpr, varsEval, varsValid, varsCount, varsFile, varsName, varsType, varsFresh, varsItem>>

DoOpen ==
    /\ Len(handles) < MaxHandles
    /\ \E mode \in Modes, allow_reopen \in BOOLEAN, fails \in BOOLEAN :
          HandleReturned("open", allow_reopen,
                         Open(handleCase, handles, fileholder, mode, allow_reopen, fails))

DoCloseHandle ==
    HandleReturned("close", FALSE, CloseHandle(handles, fileholder))

DoIsOpened ==
    HandleReturned("is_opened", FALSE,
                   HandleCall(handles, fileholder, IsOpened(handles, fileholder), ""))

HandleNext ==
    \/ DoOpen
    \/ DoCloseHandle
    \/ DoIsOpened

SpecHandle == HandleInit /\ [][HandleNext]_varsHandle

\* -------------------------------------------------- open and close: claims

OpenHandles == {i \in 1..Len(handles) : handles[i].opened}

\* Whether the file was open before the last call.
WasOpened == IsOpened(handleDone.handles, handleDone.fileholder)

HandlesAsBefore ==
    handles = handleDone.handles /\ fileholder = handleDone.fileholder

\* C29: a LocalFile holds at most one open handle at any time. open() on a file
\* that is open raises unless allow_reopen is set, and then the old handle is
\* closed before the new one is opened; close() closes the handle and returns 1
\* if the file was open, and returns 0 and changes nothing if it was not.
C29_AtMostOneOpenHandle ==
    /\ Cardinality(OpenHandles) <= 1
    /\ OpenHandles \subseteq {fileholder}
    /\ (handleDone.op = "open" /\ WasOpened /\ ~handleDone.allow_reopen) =>
          handleDone.raised = "AttributeError" /\ HandlesAsBefore
    /\ (handleDone.op = "open" /\ WasOpened /\ handleDone.allow_reopen) =>
          ~handles[handleDone.fileholder].opened
    /\ (handleDone.op = "close" /\ WasOpened) =>
          /\ handleDone.result = 1
          /\ OpenHandles = {}
    /\ (handleDone.op = "close" /\ ~WasOpened) =>
          handleDone.result = 0 /\ HandlesAsBefore

\* A file that was open is opened again with allow_reopen.
C29_Witness ==
    /\ handleDone.op = "open" /\ WasOpened /\ handleDone.allow_reopen
    /\ handleDone.raised = ""
    /\ OpenHandles = {Len(handles)}
    /\ fileholder = Len(handles)

\* ------------------------------------------------ values by key: machine
\* functions/item_functions.py: value_by_key, values_by_keys. A key is an
\* int or a str; an item is a list or a tuple of values (a row), a dict (a
\* record), or something else. The values of a dict are its values for the
\* keys 'a' and 'b' in this order, Absent for a key it does not have.

\* None of Python, among the values of the items.
NoValue == "None"
ItemValues == {"x", "y"}
IntKey(k) == [type |-> "int", int |-> k, str |-> ""]
StrKey(name) == [type |-> "str", int |-> 0, str |-> name]
IntKeys == {IntKey(k) : k \in -1..(MaxRowLen + 1)}
StrKeys == {StrKey("a"), StrKey("b")}
Keys == IntKeys \cup StrKeys
Row(type, values) == [type |-> type, values |-> values]
Rows == {Row(t, v) : t \in {"list", "tuple"}, v \in SeqsUpTo(ItemValues, MaxRowLen)}
Absent == "absent"
DictKeys == <<"a", "b">>
Records == {Row("dict", d) : d \in [1..Len(DictKeys) -> ItemValues \cup {Absent}]}

\* dict.get(key, default)
Get(values, key, default) ==
    LET at == {i \in 1..Len(DictKeys) :
                  key.type = "str" /\ DictKeys[i] = key.str /\ values[i] /= Absent}
    IN  IF at = {} THEN default ELSE values[CHOOSE i \in at : TRUE]
Items == Rows \cup Records \cup {Row("str", <<"x">>)}

\* What the function returned, or what it raised.
ItemCall(result, raised) == [result |-> result, raised |-> raised]

\* item[key] of a list or a tuple, for an int key; the elements of the model
\* are numbered from 1.
GetItem(values, key) ==
    IF 0 <= key /\ key < Len(values) THEN ItemCall(values[key + 1], "")
    ELSE IF -Len(values) <= key /\ key < 0
    THEN ItemCall(values[Len(values) + key + 1], "")
    ELSE ItemCall(NoValue, "IndexError")

\* value_by_key(key, default)(item)
ValueByKey(key, default, item) ==
    IF item.type = "dict"
    THEN ItemCall(Get(item.values, key, default), "")
    ELSE IF item.type \in {"list", "tuple"}
    THEN IF key.type = "int" /\ 0 <= key.int /\ key.int <= Len(item.values)
         THEN GetItem(item.values, key.int)
         ELSE ItemCall(NoValue, "")
    ELSE ItemCall(NoValue, "")

\* values_by_keys(keys, default)(item): the list of the values of the keys,
\* or the error of the first key that raises.
ValuesByKeys(keys, default, item) ==
    LET calls == [i \in 1..Len(keys) |-> ValueByKey(keys[i], default, item)]
        failed == {i \in 1..Len(keys) : calls[i].raised /= ""}
    IN  IF failed = {}
        THEN ItemCall([i \in 1..Len(keys) |-> calls[i].result], "")
        ELSE ItemCall(NoValue, calls[CHOOSE i \in failed : \A j \in failed : i <= j].raised)

ItemInit ==
    /\ itemCase \in [item : Items, key : Keys, default : {NoValue, "d"}]
    /\ itemDone = Idle
    /\ QueryIdle /\ SortIdle /\ GroupIdle /\ JoinIdle /\ StructIdle /\ ExprIdle /\ EvalIdle /\ ValidIdle /\ CountIdle /\ FileIdle /\ NameIdle /\ TypeIdle /\ FreshIdle /\ HandleIdle

ItemReturned(op, keys, call) ==
    /\ itemDone' = [op |-> op, keys |-> keys, result |-> call.result, raised |-> call.raised]
    /\ UNCHANGED <<itemCase, varsQuery, varsSort, varsGroup, varsJoin, varsStruct, varsExpr, varsEval, varsValid, varsCount, varsFile, varsName, varsType, varsFresh, varsHandle>>

DoValueByKey ==
    ItemReturned("value_by_key", <<itemCase.key>>,
                 ValueByKey(itemCase.key, itemCase.default, itemCase.item))

DoValuesByKeys ==
    \E other \in Keys :
        ItemReturned("values_by_keys", <<itemCase.key, other>>,
                     ValuesByKeys(<<itemCase.key, other>>, itemCase.default, itemCase.item))

ItemNext ==
    \/ DoValueByKey
    \/ DoValuesByKeys

SpecItem == ItemInit /\ [][ItemNext]_varsItem

\* ------------------------------------------------- values by key: claims

IsRow(item) == item.type \in {"list", "tuple"}

\* Whether the key is a position of the row.
InRange(key, item) ==
    key.type = "int" /\ 0 <= key.int /\ key.int < Len(item.values)

\* What the claim says value_by_key(key) returns for a row.
ElementOrNone(key, item) ==
    IF InRange(key, item)
    THEN ItemCall(item.values[key.int + 1], "")
    ELSE ItemCall(NoValue, "")

\* C30: value_by_key(key) applied to a row (a list or a tuple) returns the
\* element at the position key when 0 <= key < len(row), and returns NoValue
\* without raising for every other key: negative, equal to or greater than
\* len(row), or not an integer.
C30_ElementOrNone ==
    (itemDone.op = "value_by_key" /\ IsRow(itemCase.item)) =>
        /\ itemDone.raised = ""
        /\ itemDone.result = ElementOrNone(itemCase.key, itemCase.item).result

\* For every key that is not the length of the row value_by_key(key) returns
\* the element at the position key, or NoValue without raising.
ElementOrNoneIfKeyIsNotLen ==
    (/\ itemDone.op = "value_by_key" /\ IsRow(itemCase.item)
     /\ itemCase.key /= IntKey(Len(itemCase.item.values))) =>
        /\ itemDone.raised = ""
        /\ itemDone.result = ElementOrNone(itemCase.key, itemCase.item).result

\* values_by_keys gives, for a row, the elements of the keys or NoValue for
\* each, when no key is the length of the row.
ValuesOfKeysIfNoKeyIsLen ==
    (/\ itemDone.op = "values_by_keys" /\ IsRow(itemCase.item)
     /\ \A i \in 1..Len(itemDone.keys) :
            itemDone.keys[i] /= IntKey(Len(itemCase.item.values))) =>
        /\ itemDone.raised = ""
        /\ itemDone.result =
              [i \in 1..Len(itemDone.keys) |->
                  ElementOrNone(itemDone.keys[i], itemCase.item).result]

====
